---- MODULE Spec2Model ----
(***************************************************************************)
(* Model of the capability-resolution layer of openclaw-mini:              *)
(*   - the tool access policy (tool-policy: compilePattern, matchesAny,    *)
(*     isToolAllowed),                                                     *)
(*   - the skill pipeline of skills.ts (merge, enrich, command synthesis)  *)
(*     and the lazy one-shot load of SkillManager.                         *)
(*                                                                         *)
(* A JavaScript string is modelled as a sequence of characters, each       *)
(* character being a one-character TLA+ string.                            *)
(***************************************************************************)
EXTENDS Integers, Sequences, FiniteSets, TLC

VARIABLES
    \* ---- tool policy: one call of isToolAllowed(name, policy)
    tpName, tpPolicy, tpResult, tpPc,
    \* ---- one call of sanitizeCommandName(raw)
    sanRaw, sanOut, sanPc,
    \* ---- one call of buildSkillCommandSpecs(entries)
    synEntries, synSpecs, synPc,
    \* ---- one SkillManager: its fields, and the position and the locals of
    \* every caller inside loadAll / loadSkillEntries
    loaded, entries, commands,
    pc, managedSkills, workspaceSkills, merged, enriched,
    \* the number of times loadSkillEntries was started
    scans,
    \* ---- one call of resolveCommandInvocation(input, commands)
    invInput, invCommands, invResult, invPc,
    \* ---- one call of formatSkillsForPrompt / SkillManager.buildSkillsPrompt
    prEntries, prPrompt, prPc,
    \* ---- one call of mergeToolPolicies(base, extra)
    mpBase, mpExtra, mpResult, mpPc,
    \* ---- one load by a single caller over a chosen file system: the two
    \* roots, the managed directory the manager is constructed with, the paths
    \* whose read fails during the scans and during the second read, the locals
    \* of loadSkillEntries and the fields of the manager
    plDisk, plManagedDir, plFailing, plReread, plManaged, plWorkspace, plMerged, plEntries,
    plCommands, plLoaded, plPc

tpVars == <<tpName, tpPolicy, tpResult, tpPc>>

sanVars == <<sanRaw, sanOut, sanPc>>

synVars == <<synEntries, synSpecs, synPc>>

mgrVars == <<loaded, entries, commands>>

callVars == <<pc, managedSkills, workspaceSkills, merged, enriched, scans>>

invVars == <<invInput, invCommands, invResult, invPc>>

prVars == <<prEntries, prPrompt, prPc>>

mpVars == <<mpBase, mpExtra, mpResult, mpPc>>

plVars == <<plDisk, plManagedDir, plFailing, plReread, plManaged, plWorkspace, plMerged, plEntries,
            plCommands, plLoaded, plPc>>

\* what the specification of the manager leaves alone
otherVars == <<tpVars, sanVars, synVars, invVars, prVars, mpVars, plVars>>

vars == <<tpVars, sanVars, synVars, mgrVars, callVars, invVars, prVars, mpVars, plVars>>

(***************************************************************************)
(* String primitives of the JavaScript runtime                             *)
(***************************************************************************)

\* String.prototype.toLowerCase on the ASCII letters
LowerOf ==
    [c \in {"A","B","C","D","E","F","G","H","I","J","K","L","M",
            "N","O","P","Q","R","S","T","U","V","W","X","Y","Z"} |->
        CASE c = "A" -> "a" [] c = "B" -> "b" [] c = "C" -> "c" [] c = "D" -> "d"
          [] c = "E" -> "e" [] c = "F" -> "f" [] c = "G" -> "g" [] c = "H" -> "h"
          [] c = "I" -> "i" [] c = "J" -> "j" [] c = "K" -> "k" [] c = "L" -> "l"
          [] c = "M" -> "m" [] c = "N" -> "n" [] c = "O" -> "o" [] c = "P" -> "p"
          [] c = "Q" -> "q" [] c = "R" -> "r" [] c = "S" -> "s" [] c = "T" -> "t"
          [] c = "U" -> "u" [] c = "V" -> "v" [] c = "W" -> "w" [] c = "X" -> "x"
          [] c = "Y" -> "y" [] c = "Z" -> "z"]

LowerChar(c) ==
    IF c \in DOMAIN LowerOf THEN LowerOf[c] ELSE c

toLowerCase(s) ==
    [i \in 1..Len(s) |-> LowerChar(s[i])]

UpperChar(c) ==
    IF \E u \in DOMAIN LowerOf : LowerOf[u] = c
    THEN CHOOSE u \in DOMAIN LowerOf : LowerOf[u] = c
    ELSE c

toUpperCase(s) ==
    [i \in 1..Len(s) |-> UpperChar(s[i])]

\* the white space String.prototype.trim removes (the part of it the model uses)
WhiteSpace ==
    {" ", "\t", "\n", "\r"}

\* the line terminators, which `.` of a RegExp without the s flag never matches
LineTerminators ==
    {"\n", "\r"}

RECURSIVE trimStart(_)
trimStart(s) ==
    IF s # <<>> /\ Head(s) \in WhiteSpace THEN trimStart(Tail(s)) ELSE s

RECURSIVE trimEnd(_)
trimEnd(s) ==
    IF s # <<>> /\ s[Len(s)] \in WhiteSpace
    THEN trimEnd(SubSeq(s, 1, Len(s) - 1))
    ELSE s

trim(s) ==
    trimEnd(trimStart(s))

\* String.prototype.slice(0, n)
slice0(s, n) ==
    SubSeq(s, 1, IF n < Len(s) THEN n ELSE Len(s))

\* String.prototype.includes for one character
includesChar(s, c) ==
    \E i \in 1..Len(s) : s[i] = c

\* the indices 1..Len(s), in order
indices(s) ==
    [i \in 1..Len(s) |-> i]

\* the least element of a non-empty set of indices
first(S) ==
    CHOOSE i \in S : \A j \in S : i <= j

startsWith(s, head) ==
    Len(s) >= Len(head) /\ SubSeq(s, 1, Len(head)) = head

endsWith(s, tail) ==
    Len(s) >= Len(tail) /\ SubSeq(s, Len(s) - Len(tail) + 1, Len(s)) = tail

\* the concatenation of parts[lo..hi], computed by halves
RECURSIVE concatRange(_, _, _)
concatRange(parts, lo, hi) ==
    IF lo > hi THEN <<>>
    ELSE IF lo = hi THEN parts[lo]
    ELSE LET mid == (lo + hi) \div 2
         IN  concatRange(parts, lo, mid) \o concatRange(parts, mid + 1, hi)

\* Array.prototype.join
join(lines, sep) ==
    concatRange([i \in 1..Len(lines) |-> IF i = 1 THEN lines[i] ELSE sep \o lines[i]],
                1, Len(lines))

(***************************************************************************)
(* An optional value (a field that may be undefined)                       *)
(***************************************************************************)
Undefined ==
    [some |-> FALSE, val |-> <<>>]

Some(v) ==
    [some |-> TRUE, val |-> v]

\* `list ?? []`
OrEmpty(opt) ==
    IF opt.some THEN opt.val ELSE <<>>

(***************************************************************************)
(* Tool policy                                                             *)
(***************************************************************************)

normalizeToolNameNoLower(name) ==
    trim(name)

normalizeToolName(name) ==
    toLowerCase(trim(name))

\* the characters of the class [.*+?^${}()|[\]\\]
RegexSpecial ==
    {".", "*", "+", "?", "^", "$", "{", "}", "(", ")", "|", "[", "]", "\\"}

\* normalized.replace(/[.*+?^${}()|[\]\\]/g, "\\$&")
RECURSIVE escapeRegex(_)
escapeRegex(s) ==
    IF s = <<>> THEN <<>>
    ELSE (IF Head(s) \in RegexSpecial THEN <<"\\", Head(s)>> ELSE <<Head(s)>>)
         \o escapeRegex(Tail(s))

\* escaped.replaceAll("\\*", ".*"): left to right, non-overlapping
RECURSIVE unescapeStar(_)
unescapeStar(s) ==
    IF s = <<>> THEN <<>>
    ELSE IF Len(s) >= 2 /\ s[1] = "\\" /\ s[2] = "*"
         THEN <<".", "*">> \o unescapeStar(SubSeq(s, 3, Len(s)))
         ELSE <<Head(s)>> \o unescapeStar(Tail(s))

\* The atoms of a RegExp source: an escaped or plain character is a literal,
\* `.` is any character but a line terminator, and a following `*` repeats.
RECURSIVE regexAtoms(_)
regexAtoms(src) ==
    IF src = <<>> THEN <<>>
    ELSE LET esc  == src[1] = "\\" /\ Len(src) >= 2
             atom == IF esc THEN [kind |-> "lit", ch |-> src[2]]
                     ELSE IF src[1] = "." THEN [kind |-> "dot", ch |-> "."]
                     ELSE [kind |-> "lit", ch |-> src[1]]
             rest == SubSeq(src, IF esc THEN 3 ELSE 2, Len(src))
             star == rest # <<>> /\ rest[1] = "*"
         IN  <<[kind |-> atom.kind, ch |-> atom.ch, star |-> star]>>
             \o regexAtoms(IF star THEN Tail(rest) ELSE rest)

atomMatches(atom, c) ==
    IF atom.kind = "dot" THEN c \notin LineTerminators ELSE c = atom.ch

\* backtracking match of atoms[i..] against s[j..]; toEnd is the `$` anchor
RECURSIVE matchAtoms(_, _, _, _, _)
matchAtoms(atoms, i, s, j, toEnd) ==
    IF i > Len(atoms) THEN (~toEnd \/ j > Len(s))
    ELSE IF atoms[i].star
         THEN \/ matchAtoms(atoms, i + 1, s, j, toEnd)
              \/ /\ j <= Len(s)
                 /\ atomMatches(atoms[i], s[j])
                 /\ matchAtoms(atoms, i, s, j + 1, toEnd)
         ELSE /\ j <= Len(s)
              /\ atomMatches(atoms[i], s[j])
              /\ matchAtoms(atoms, i + 1, s, j + 1, toEnd)

\* RegExp.prototype.test for a source made of `^`, atoms and `$` (no flags)
regexTest(src, s) ==
    LET fromStart == src # <<>> /\ src[1] = "^"
        body1     == IF fromStart THEN Tail(src) ELSE src
        toEnd     == body1 # <<>> /\ body1[Len(body1)] = "$"
        body      == IF toEnd THEN SubSeq(body1, 1, Len(body1) - 1) ELSE body1
        atoms     == regexAtoms(body)
    IN  IF fromStart THEN matchAtoms(atoms, 1, s, 1, toEnd)
        ELSE \E j \in 1..(Len(s) + 1) : matchAtoms(atoms, 1, s, j, toEnd)

compilePattern(pattern) ==
    LET normalized == normalizeToolName(pattern)
    IN  IF normalized = <<>> THEN [kind |-> "exact", value |-> <<>>]
        ELSE IF normalized = <<"*">> THEN [kind |-> "all", value |-> <<>>]
        ELSE IF ~includesChar(normalized, "*")
             THEN [kind |-> "exact", value |-> normalized]
        ELSE [kind  |-> "regex",
              value |-> <<"^">> \o unescapeStar(escapeRegex(normalized)) \o <<"$">>]

compilePatterns(patterns) ==
    [i \in 1..Len(patterns) |-> compilePattern(patterns[i])]

matchesAny(name, patterns) ==
    \E i \in 1..Len(patterns) :
        \/ patterns[i].kind = "all"
        \/ patterns[i].kind = "exact" /\ name = patterns[i].value
        \/ patterns[i].kind = "regex" /\ regexTest(patterns[i].value, name)

\* a ToolPolicy argument: undefined, or {allow?, deny?}
NoPolicy ==
    [defined |-> FALSE, allow |-> Undefined, deny |-> Undefined]

Policy(allow, deny) ==
    [defined |-> TRUE, allow |-> allow, deny |-> deny]

isToolAllowedAllowFirst(name, policy) ==
    IF ~policy.defined THEN TRUE
    ELSE LET normalized == normalizeToolName(name)
             deny  == compilePatterns(OrEmpty(policy.deny))
             allow == compilePatterns(OrEmpty(policy.allow))
         IN  IF Len(allow) > 0 /\ matchesAny(normalized, allow) THEN TRUE
             ELSE IF matchesAny(normalized, deny) THEN FALSE
             ELSE Len(allow) = 0

isToolAllowedEmptyAllowDenies(name, policy) ==
    IF ~policy.defined THEN TRUE
    ELSE LET normalized == normalizeToolName(name)
             deny  == compilePatterns(OrEmpty(policy.deny))
             allow == compilePatterns(OrEmpty(policy.allow))
         IN  IF matchesAny(normalized, deny) THEN FALSE
             ELSE matchesAny(normalized, allow)

isToolAllowed(name, policy) ==
    IF ~policy.defined THEN TRUE
    ELSE LET normalized == normalizeToolName(name)
             deny  == compilePatterns(OrEmpty(policy.deny))
             allow == compilePatterns(OrEmpty(policy.allow))
         IN  IF matchesAny(normalized, deny) THEN FALSE
             ELSE IF Len(allow) = 0 THEN TRUE
             ELSE matchesAny(normalized, allow)

(***************************************************************************)
(* Command synthesis (skills.ts)                                           *)
(***************************************************************************)
COMMAND_MAX_LENGTH == 32
COMMAND_FALLBACK == <<"s","k","i","l","l">>
DESCRIPTION_MAX_LENGTH == 100
\* the loop of resolveUniqueCommandName runs while i < SUFFIX_LIMIT
SUFFIX_LIMIT == 1000
\* the character U+2026 that ends a truncated description
Ellipsis == "U+2026"

\* the characters of the class [a-z0-9_]
CommandChars ==
    {"a","b","c","d","e","f","g","h","i","j","k","l","m",
     "n","o","p","q","r","s","t","u","v","w","x","y","z",
     "0","1","2","3","4","5","6","7","8","9","_"}

\* .replace(/[^a-z0-9_]+/g, "_"): of every maximal run of other characters
\* the first one stays, as an underscore
replaceOtherRuns(s) ==
    LET kept == SelectSeq(indices(s),
                          LAMBDA i : s[i] \in CommandChars \/ i = 1 \/ s[i - 1] \in CommandChars)
    IN  [k \in 1..Len(kept) |-> IF s[kept[k]] \in CommandChars THEN s[kept[k]] ELSE "_"]

\* .replace(/_+/g, "_"): of every run of underscores the first one stays
collapseUnderscores(s) ==
    LET kept == SelectSeq(indices(s), LAMBDA i : s[i] # "_" \/ i = 1 \/ s[i - 1] # "_")
    IN  [k \in 1..Len(kept) |-> s[kept[k]]]

\* .replace(/^_+|_+$/g, ""): what lies between the first and the last
\* character that is not an underscore
stripUnderscores(s) ==
    LET other == {i \in 1..Len(s) : s[i] # "_"}
    IN  IF other = {} THEN <<>>
        ELSE SubSeq(s, CHOOSE i \in other : \A j \in other : i <= j,
                       CHOOSE i \in other : \A j \in other : i >= j)

sanitizeCommandNameNoTruncate(raw) ==
    LET normalized == stripUnderscores(collapseUnderscores(replaceOtherRuns(toLowerCase(raw))))
    IN  IF normalized = <<>> THEN COMMAND_FALLBACK ELSE normalized

sanitizeCommandName(raw) ==
    LET normalized == stripUnderscores(collapseUnderscores(replaceOtherRuns(toLowerCase(raw))))
        cut        == slice0(normalized, COMMAND_MAX_LENGTH)
    IN  IF cut = <<>> THEN COMMAND_FALLBACK ELSE cut

Max(a, b) ==
    IF a > b THEN a ELSE b

DigitChar(d) ==
    <<"0","1","2","3","4","5","6","7","8","9">>[d + 1]

\* the decimal digits of i, as `${i}` prints them
RECURSIVE decimal(_)
decimal(i) ==
    IF i < 10 THEN <<DigitChar(i)>> ELSE decimal(i \div 10) \o <<DigitChar(i % 10)>>

suffixCandidateNoCut(base, i) ==
    base \o <<"_">> \o decimal(i)

\* the candidate of one iteration of the loop of resolveUniqueCommandName
suffixCandidate(base, i) ==
    LET suffix  == <<"_">> \o decimal(i)
        maxBase == Max(1, COMMAND_MAX_LENGTH - Len(suffix))
    IN  slice0(base, maxBase) \o suffix

\* for (let i = 2; i < 1000; i++) { ... }: the value of i when the loop is
\* left, either the first i whose candidate is free or SUFFIX_LIMIT
suffixLoopExit(base, used) ==
    CHOOSE i \in 2..SUFFIX_LIMIT :
        /\ i = SUFFIX_LIMIT \/ toLowerCase(suffixCandidate(base, i)) \notin used
        /\ \A j \in 2..(i - 1) : toLowerCase(suffixCandidate(base, j)) \in used

resolveUniqueCommandName(base, used) ==
    IF toLowerCase(base) \notin used THEN base
    ELSE LET i == suffixLoopExit(base, used)
         IN  IF i < SUFFIX_LIMIT THEN suffixCandidate(base, i)
             ELSE slice0(base, Max(1, COMMAND_MAX_LENGTH - 2)) \o <<"_", "x">>

\* the description of a command: trimmed, the skill name when empty, cut to
\* DESCRIPTION_MAX_LENGTH with the ellipsis as its last character
commandDescription(skill) ==
    LET trimmed == trim(skill.description)
        rawDesc == IF trimmed # <<>> THEN trimmed ELSE skill.name
    IN  IF Len(rawDesc) > DESCRIPTION_MAX_LENGTH
        THEN slice0(rawDesc, DESCRIPTION_MAX_LENGTH - 1) \o <<Ellipsis>>
        ELSE rawDesc

\* one iteration of the for loop of buildSkillCommandSpecs; acc holds the
\* locals `used` and `specs`
buildStep(acc, entry) ==
    LET base   == sanitizeCommandName(entry.skill.name)
        unique == resolveUniqueCommandName(base, acc.used)
    IN  [used  |-> {u : u \in acc.used \cup {toLowerCase(unique)}},
         specs |-> Append(acc.specs, [name        |-> unique,
                                      skillName   |-> entry.skill.name,
                                      description |-> commandDescription(entry.skill)])]

\* v is computed here, as in JavaScript, and not when it is first used
evaluated(v) ==
    v = v

\* the iterations lo..hi of the loop, in index order; the range is split in
\* halves, the first computed before the second starts, which keeps the depth
\* of the evaluation logarithmic in the length of the list
RECURSIVE buildRange(_, _, _, _)
buildRange(list, lo, hi, acc) ==
    IF lo > hi THEN acc
    ELSE IF lo = hi THEN buildStep(acc, list[lo])
    ELSE LET mid  == (lo + hi) \div 2
             left == buildRange(list, lo, mid, acc)
         IN  IF evaluated(left) THEN buildRange(list, mid + 1, hi, left) ELSE left

isUserInvocable(e) ==
    e.invocation.userInvocable # FALSE

buildSkillCommandSpecsReserveAll(skillEntries) ==
    LET all  == buildRange(skillEntries, 1, Len(skillEntries), [used |-> {}, specs |-> <<>>]).specs
        kept == SelectSeq(indices(skillEntries), LAMBDA i : isUserInvocable(skillEntries[i]))
    IN  [k \in 1..Len(kept) |-> all[kept[k]]]

buildSkillCommandSpecs(skillEntries) ==
    LET userInvocable == SelectSeq(skillEntries, isUserInvocable)
    IN  buildRange(userInvocable, 1, Len(userInvocable), [used |-> {}, specs |-> <<>>]).specs

(***************************************************************************)
(* Inputs of the tool policy specification                                 *)
(***************************************************************************)
\* the number of patterns of a policy, allow and deny lists together
MaxPatterns == 3

\* "*", "exec*", " Exec_Python ", "a.b*", ""
PatternPool ==
    { <<"*">>,
      <<"e","x","e","c","*">>,
      <<" ","E","x","e","c","_","P","y","t","h","o","n"," ">>,
      <<"a",".","b","*">>,
      <<>> }

\* "exec", " EXEC_Python", "a.bcd", "axbcd", "xa.bcd", "read", "EXEC\t", "",
\* "exec\nrm"
ToolNamePool ==
    { <<"e","x","e","c">>,
      <<" ","E","X","E","C","_","P","y","t","h","o","n">>,
      <<"a",".","b","c","d">>,
      <<"a","x","b","c","d">>,
      <<"x","a",".","b","c","d">>,
      <<"r","e","a","d">>,
      <<"E","X","E","C","\t">>,
      <<>>,
      <<"e","x","e","c","\n","r","m">> }

SeqsUpTo(S, n) ==
    UNION {[1..k -> S] : k \in 0..n}

OptLists(n) ==
    {Undefined} \cup {Some(l) : l \in SeqsUpTo(PatternPool, n)}

PolicyInputs ==
    {NoPolicy}
    \cup UNION {{Policy(a, d) : d \in OptLists(MaxPatterns - Len(OrEmpty(a)))} :
                   a \in OptLists(MaxPatterns)}

\* the parts of the state a specification does not use
tpOff ==
    tpName = <<>> /\ tpPolicy = NoPolicy /\ tpResult = FALSE /\ tpPc = "off"

sanOff ==
    sanRaw = <<>> /\ sanOut = <<>> /\ sanPc = "off"

synOff ==
    synEntries = <<>> /\ synSpecs = <<>> /\ synPc = "off"

mgrOff ==
    /\ loaded = FALSE /\ entries = <<>> /\ commands = <<>>
    /\ pc = <<>> /\ managedSkills = <<>> /\ workspaceSkills = <<>>
    /\ merged = <<>> /\ enriched = <<>> /\ scans = 0

invOff ==
    invInput = <<>> /\ invCommands = <<>> /\ invResult = <<>> /\ invPc = "off"

prOff ==
    prEntries = <<>> /\ prPrompt = <<>> /\ prPc = "off"

mpOff ==
    mpBase = NoPolicy /\ mpExtra = NoPolicy /\ mpResult = NoPolicy /\ mpPc = "off"

plOff ==
    /\ plDisk = <<>> /\ plManagedDir = <<>> /\ plFailing = {} /\ plReread = {}
    /\ plManaged = <<>> /\ plWorkspace = <<>>
    /\ plMerged = <<>> /\ plEntries = <<>> /\ plCommands = <<>>
    /\ plLoaded = FALSE /\ plPc = "off"

PolicyInit ==
    /\ tpName \in ToolNamePool
    /\ tpPolicy \in PolicyInputs
    /\ tpResult = FALSE
    /\ tpPc = "call"
    /\ sanOff /\ synOff /\ mgrOff
    /\ invOff /\ prOff /\ mpOff /\ plOff

CallIsToolAllowed ==
    /\ tpPc = "call"
    /\ tpResult' = isToolAllowed(tpName, tpPolicy)
    /\ tpPc' = "done"
    /\ UNCHANGED <<tpName, tpPolicy, sanVars, synVars, mgrVars, callVars>>
    /\ UNCHANGED <<invVars, prVars, mpVars, plVars>>

PolicyNext ==
    CallIsToolAllowed

SpecPolicy ==
    PolicyInit /\ [][PolicyNext]_vars

(***************************************************************************)
(* Properties of the tool policy                                           *)
(***************************************************************************)
tpDenyMatch ==
    matchesAny(normalizeToolName(tpName), compilePatterns(OrEmpty(tpPolicy.deny)))

tpAllowMatch ==
    matchesAny(normalizeToolName(tpName), compilePatterns(OrEmpty(tpPolicy.allow)))

\* C3: a name that matches at least one deny pattern of the policy is
\* refused, whatever the allow list holds (deny wins over allow).
C3_DenyWins ==
    (tpPc = "done" /\ tpPolicy.defined /\ tpDenyMatch) => tpResult = FALSE

\* a refused name that the deny list and the allow list both match
C3_Witness ==
    /\ tpPc = "done"
    /\ tpPolicy.defined
    /\ tpDenyMatch
    /\ tpAllowMatch
    /\ tpResult = FALSE

\* C4: a name that matches no deny pattern is allowed when the policy, or
\* its allow list, is absent or empty, and otherwise exactly when it matches
\* an allow pattern.
C4_AllowDecision ==
    (tpPc = "done" /\ ~tpDenyMatch) =>
        tpResult = (IF ~tpPolicy.defined \/ Len(OrEmpty(tpPolicy.allow)) = 0
                    THEN TRUE
                    ELSE tpAllowMatch)

\* a name allowed by an empty allow list although a deny list is present
C4_Witness ==
    /\ tpPc = "done"
    /\ tpPolicy.defined
    /\ tpPolicy.allow.some /\ Len(tpPolicy.allow.val) = 0
    /\ Len(OrEmpty(tpPolicy.deny)) > 0
    /\ ~tpDenyMatch
    /\ tpResult = TRUE

\* the wildcard semantics the patterns are documented to have: `*` stands
\* for any sequence of characters, every other character for itself, and
\* the whole name must be consumed
RECURSIVE globMatch(_, _)
globMatch(p, s) ==
    IF p = <<>> THEN s = <<>>
    ELSE IF Head(p) = "*"
         THEN globMatch(Tail(p), s) \/ (s # <<>> /\ globMatch(p, Tail(s)))
         ELSE s # <<>> /\ Head(p) = Head(s) /\ globMatch(Tail(p), Tail(s))

tpPatterns ==
    {OrEmpty(tpPolicy.allow)[i] : i \in 1..Len(OrEmpty(tpPolicy.allow))}
    \cup {OrEmpty(tpPolicy.deny)[i] : i \in 1..Len(OrEmpty(tpPolicy.deny))}

\* C9: in a pattern with a wildcard only `*` is a wildcard, standing for any
\* sequence of characters, every other character (`.` included) matches
\* itself and the pattern is anchored at both ends.
C9_OnlyStarIsWildcard ==
    tpPc = "done" =>
        \A p \in tpPatterns :
            includesChar(normalizeToolName(p), "*") =>
                ( matchesAny(normalizeToolName(tpName), <<compilePattern(p)>>)
                  <=> globMatch(normalizeToolName(p), normalizeToolName(tpName)) )

\* a string surrounded by white space
padded(s) ==
    <<" ">> \o s \o <<"\t">>

\* the strings that differ from s only in letter case or surrounding space
caseSpaceVariants(s) ==
    {toUpperCase(s), toLowerCase(s), padded(s), padded(toUpperCase(s))}

replaceAt(list, i, v) ==
    [list EXCEPT ![i] = v]

\* the policies that differ from policy in one pattern, by case or space
policyVariants(policy) ==
    IF ~policy.defined THEN {}
    ELSE {Policy(Some(replaceAt(policy.allow.val, i, v)), policy.deny) :
              <<i, v>> \in UNION {{<<j, w>> : w \in caseSpaceVariants(policy.allow.val[j])} :
                                   j \in 1..Len(OrEmpty(policy.allow))}}
         \cup
         {Policy(policy.allow, Some(replaceAt(policy.deny.val, i, v))) :
              <<i, v>> \in UNION {{<<j, w>> : w \in caseSpaceVariants(policy.deny.val[j])} :
                                   j \in 1..Len(OrEmpty(policy.deny))}}

\* C10: the decision does not change when the name, or one pattern, is
\* replaced by a variant that differs only in letter case or in leading and
\* trailing white space.
C10_CaseAndSpaceInsensitive ==
    tpPc = "done" =>
        /\ \A n \in caseSpaceVariants(tpName) :
               isToolAllowed(n, tpPolicy) = tpResult
        /\ \A pv \in policyVariants(tpPolicy) :
               isToolAllowed(tpName, pv) = tpResult

\* an upper-case, padded name refused through a mixed-case, padded exact
\* pattern and allowed by nothing else
C10_Witness ==
    /\ tpPc = "done"
    /\ tpPolicy.defined
    /\ tpName # normalizeToolName(tpName)
    /\ \E i \in 1..Len(OrEmpty(tpPolicy.deny)) :
           /\ tpPolicy.deny.val[i] # normalizeToolName(tpPolicy.deny.val[i])
           /\ matchesAny(normalizeToolName(tpName), <<compilePattern(tpPolicy.deny.val[i])>>)
    /\ tpResult = FALSE

(***************************************************************************)
(* Skill files, scan, merge and enrichment                                 *)
(***************************************************************************)

\* the header of a file that could not be read or has no header block: {}
EmptyFrontmatter ==
    [name |-> Undefined, description |-> Undefined, dmi |-> Undefined, ui |-> Undefined]

\* the header of a skill file: the values of the keys name, description,
\* disable-model-invocation (dmi) and user-invocable (ui), when present
Frontmatter(name, description, dmi, ui) ==
    [name |-> name, description |-> description, dmi |-> dmi, ui |-> ui]

parseBool(value, fallback) ==
    IF ~value.some THEN fallback
    ELSE LET v == toLowerCase(trim(value.val))
         IN  IF v \in {<<"t","r","u","e">>, <<"y","e","s">>, <<"1">>} THEN TRUE
             ELSE IF v \in {<<"f","a","l","s","e">>, <<"n","o">>, <<"0">>} THEN FALSE
             ELSE fallback

resolveInvocationPolicy(fm) ==
    [userInvocable          |-> parseBool(fm.ui, TRUE),
     disableModelInvocation |-> parseBool(fm.dmi, FALSE)]

(***************************************************************************)
(* The file system: disk.dirs gives the entry names of every directory, in *)
(* the order readdir lists them, disk.files the text of every file, both   *)
(* by absolute path; failing holds the paths whose read throws             *)
(***************************************************************************)
\* the outcome of a call that may throw
Ok(v) ==
    [threw |-> FALSE, val |-> v]

Thrown ==
    [threw |-> TRUE, val |-> <<>>]

\* fs.readdir(dir, { withFileTypes: true })
readdir(disk, failing, dir) ==
    IF dir \notin DOMAIN disk.dirs \/ dir \in failing THEN Thrown ELSE Ok(disk.dirs[dir])

\* Dirent.isDirectory() of the entry at path
isDirectory(disk, path) ==
    path \in DOMAIN disk.dirs

\* fs.readFile(path, "utf-8")
readFile(disk, failing, path) ==
    IF path \notin DOMAIN disk.files \/ path \in failing THEN Thrown ELSE Ok(disk.files[path])

\* path.join(dir, name) for a normalized dir and a plain name
pathJoin(dir, name) ==
    IF endsWith(dir, <<"/">>) THEN dir \o name ELSE dir \o <<"/">> \o name

\* path.basename(p): what follows the last `/`, trailing slashes ignored
basename(p) ==
    LET other  == {i \in 1..Len(p) : p[i] # "/"}
        last   == CHOOSE i \in other : \A j \in other : j <= i
        before == {i \in 1..last : p[i] = "/"}
    IN  IF other = {} THEN <<>>
        ELSE SubSeq(p, IF before = {} THEN 1
                       ELSE (CHOOSE i \in before : \A j \in before : j <= i) + 1,
                    last)

\* path.basename(p, ext)
basenameWithout(p, ext) ==
    LET b == basename(p)
    IN  IF endsWith(b, ext) /\ b # ext THEN SubSeq(b, 1, Len(b) - Len(ext)) ELSE b

SKILL_MD ==
    <<"S","K","I","L","L",".","m","d">>

(***************************************************************************)
(* The header of a skill file                                              *)
(***************************************************************************)
\* content.match(/^---\r?\n([\s\S]*?)\r?\n---/): the shortest text between
\* the opening line and a line that starts with `---`
headerBlock(content) ==
    LET start == IF startsWith(content, <<"-","-","-","\r","\n">>) THEN 6
                 ELSE IF startsWith(content, <<"-","-","-","\n">>) THEN 5
                 ELSE 0
        ends  == {e \in start..Len(content) :
                     \/ startsWith(SubSeq(content, e, Len(content)), <<"\r","\n","-","-","-">>)
                     \/ startsWith(SubSeq(content, e, Len(content)), <<"\n","-","-","-">>)}
    IN  IF start = 0 \/ ends = {} THEN Undefined
        ELSE Some(SubSeq(content, start, first(ends) - 1))

\* String.prototype.split("\n")
splitLines(s) ==
    LET nl == SelectSeq(indices(s), LAMBDA i : s[i] = "\n")
    IN  [k \in 1..(Len(nl) + 1) |->
            SubSeq(s, IF k = 1 THEN 1 ELSE nl[k - 1] + 1,
                      IF k = Len(nl) + 1 THEN Len(s) ELSE nl[k] - 1)]

\* the characters of [a-zA-Z]
AsciiLetters ==
    DOMAIN LowerOf \cup {LowerOf[c] : c \in DOMAIN LowerOf}

\* the characters of [\w-]
KeyChars ==
    AsciiLetters \cup {"0","1","2","3","4","5","6","7","8","9","_","-"}

QuoteChars ==
    {"\"", "'"}

\* value.replace(/^["']|["']$/g, ""): one quote off each end
stripQuotes(v) ==
    LET from == IF v # <<>> /\ v[1] \in QuoteChars THEN 2 ELSE 1
        to   == IF Len(v) >= from /\ v[Len(v)] \in QuoteChars THEN Len(v) - 1 ELSE Len(v)
    IN  SubSeq(v, from, to)

\* line.match(/^([a-zA-Z][\w-]*):\s*(.+)$/): the key before the first colon
\* and the value after the white space that follows it; `.` matches no line
\* terminator, and of a rest that is all white space the last character is
\* the value
keyValue(line) ==
    LET colons == {i \in 1..Len(line) : line[i] = ":"}
        colon  == first(colons)
        rest   == SubSeq(line, colon + 1, Len(line))
        other  == {i \in 1..Len(rest) : rest[i] \notin WhiteSpace}
        value  == SubSeq(rest, IF other = {} THEN Len(rest) ELSE first(other), Len(rest))
    IN  IF colons = {} THEN Undefined
        ELSE IF colon = 1 \/ line[1] \notin AsciiLetters THEN Undefined
        ELSE IF \E i \in 2..(colon - 1) : line[i] \notin KeyChars THEN Undefined
        ELSE IF rest = <<>> THEN Undefined
        ELSE IF \E i \in 1..Len(value) : value[i] \in LineTerminators THEN Undefined
        ELSE Some([key |-> SubSeq(line, 1, colon - 1), value |-> stripQuotes(value)])

\* result[key] after the loop over the lines: the value of the last line
\* that sets the key
headerValue(lines, key) ==
    LET set == {i \in 1..Len(lines) : keyValue(lines[i]).some /\ keyValue(lines[i]).val.key = key}
    IN  IF set = {} THEN Undefined
        ELSE Some(keyValue(lines[CHOOSE i \in set : \A j \in set : j <= i]).val.value)

\* the keys the program reads from a header
headerFields(content) ==
    LET block == headerBlock(content)
        lines == splitLines(block.val)
    IN  IF ~block.some THEN EmptyFrontmatter
        ELSE Frontmatter(headerValue(lines, <<"n","a","m","e">>),
                         headerValue(lines, <<"d","e","s","c","r","i","p","t","i","o","n">>),
                         headerValue(lines, <<"d","i","s","a","b","l","e","-","m","o","d","e","l","-","i","n","v","o","c","a","t","i","o","n">>),
                         headerValue(lines, <<"u","s","e","r","-","i","n","v","o","c","a","b","l","e">>))

\* extractFrontmatter of skill-primitives.ts
extractFrontmatter(content) ==
    headerFields(content)

\* parseFrontmatter of skills.ts
parseFrontmatter(content) ==
    headerFields(content)

(***************************************************************************)
(* The scanner (skill-primitives.ts)                                       *)
(***************************************************************************)
loadSkillFromFileNoTrim(disk, failing, filePath, baseDir, source) ==
    LET read == readFile(disk, failing, filePath)
        parsed(fm) ==
            LET declared    == IF fm.name.some THEN trim(fm.name.val) ELSE <<>>
                dirName     == toLowerCase(basename(baseDir))
                name        == IF declared # <<>> THEN declared
                               ELSE IF dirName # <<>> THEN dirName
                               ELSE toLowerCase(basenameWithout(filePath, <<".","m","d">>))
                description == IF fm.description.some THEN fm.description.val ELSE <<>>
            IN  IF description = <<>> THEN Ok(Undefined)
                ELSE Ok(Some([name |-> name, description |-> description,
                              filePath |-> filePath, baseDir |-> baseDir, source |-> source,
                              disableModelInvocation |-> parseBool(fm.dmi, FALSE)]))
    IN  IF read.threw THEN Ok(Undefined)
        ELSE parsed(extractFrontmatter(read.val))

loadSkillFromFileByFileName(disk, failing, filePath, baseDir, source) ==
    LET read == readFile(disk, failing, filePath)
        parsed(fm) ==
            LET declared    == IF fm.name.some THEN trim(fm.name.val) ELSE <<>>
                fileName    == toLowerCase(basenameWithout(filePath, <<".","m","d">>))
                name        == IF declared # <<>> THEN declared
                               ELSE IF fileName # <<>> THEN fileName
                               ELSE toLowerCase(basename(baseDir))
                description == IF fm.description.some THEN trim(fm.description.val) ELSE <<>>
            IN  IF description = <<>> THEN Ok(Undefined)
                ELSE Ok(Some([name |-> name, description |-> description,
                              filePath |-> filePath, baseDir |-> baseDir, source |-> source,
                              disableModelInvocation |-> parseBool(fm.dmi, FALSE)]))
    IN  IF read.threw THEN Ok(Undefined)
        ELSE parsed(extractFrontmatter(read.val))

\* loadSkillFromFile: null (Undefined) when the file cannot be read or has
\* no description, the Skill otherwise; the paths are absolute already
loadSkillFromFile(disk, failing, filePath, baseDir, source) ==
    LET read == readFile(disk, failing, filePath)
        parsed(fm) ==
            LET declared    == IF fm.name.some THEN trim(fm.name.val) ELSE <<>>
                dirName     == toLowerCase(basename(baseDir))
                name        == IF declared # <<>> THEN declared
                               ELSE IF dirName # <<>> THEN dirName
                               ELSE toLowerCase(basenameWithout(filePath, <<".","m","d">>))
                description == IF fm.description.some THEN trim(fm.description.val) ELSE <<>>
            IN  IF description = <<>> THEN Ok(Undefined)
                ELSE Ok(Some([name |-> name, description |-> description,
                              filePath |-> filePath, baseDir |-> baseDir, source |-> source,
                              disableModelInvocation |-> parseBool(fm.dmi, FALSE)]))
    IN  IF read.threw THEN Ok(Undefined)
        ELSE parsed(extractFrontmatter(read.val))

\* entry.name.startsWith(".") || entry.name === "node_modules"
skipped(name) ==
    startsWith(name, <<".">>) \/ name = <<"n","o","d","e","_","m","o","d","u","l","e","s">>

\* `if (skill) skills.push(skill)`
pushed(skill) ==
    IF skill.some THEN <<skill.val>> ELSE <<>>

\* the skills of the iterations of a loop, or the exception one of them threw
collect(visits) ==
    IF \E i \in 1..Len(visits) : visits[i].threw THEN Thrown
    ELSE Ok(concatRange([i \in 1..Len(visits) |-> visits[i].val], 1, Len(visits)))

RECURSIVE scanSubdirs(_, _, _, _)

\* one iteration of the loop of scanSubdirs
subdirVisit(disk, failing, dir, source, name) ==
    LET fullPath == pathJoin(dir, name)
        skill    == loadSkillFromFile(disk, failing, pathJoin(fullPath, SKILL_MD),
                                      fullPath, source)
        sub      == scanSubdirs(disk, failing, fullPath, source)
    IN  IF skipped(name) THEN Ok(<<>>)
        ELSE IF ~isDirectory(disk, fullPath) THEN Ok(<<>>)
        ELSE IF skill.threw \/ sub.threw THEN Thrown
        ELSE Ok(pushed(skill.val) \o sub.val)

scanSubdirs(disk, failing, dir, source) ==
    LET listing == readdir(disk, failing, dir)
    IN  IF listing.threw THEN Ok(<<>>)
        ELSE collect([i \in 1..Len(listing.val) |->
                         subdirVisit(disk, failing, dir, source, listing.val[i])])

\* one iteration of the loop of loadSkillsFromDir
rootVisit(disk, failing, dir, source, name) ==
    LET fullPath == pathJoin(dir, name)
        inDir    == loadSkillFromFile(disk, failing, pathJoin(fullPath, SKILL_MD),
                                      fullPath, source)
        sub      == scanSubdirs(disk, failing, fullPath, source)
        inFile   == loadSkillFromFile(disk, failing, fullPath, dir, source)
    IN  IF skipped(name) THEN Ok(<<>>)
        ELSE IF isDirectory(disk, fullPath)
             THEN IF inDir.threw \/ sub.threw THEN Thrown
                  ELSE Ok(pushed(inDir.val) \o sub.val)
        ELSE IF endsWith(name, <<".","m","d">>)
             THEN IF inFile.threw THEN Thrown ELSE Ok(pushed(inFile.val))
        ELSE Ok(<<>>)

\* the entries of the root, visited as loadSkillsFromDir visits them
rootVisits(disk, failing, dir, source, names) ==
    collect([i \in 1..Len(names) |-> rootVisit(disk, failing, dir, source, names[i])])

loadSkillsFromDirNoCatch(disk, failing, dir, source) ==
    LET listing == readdir(disk, failing, dir)
    IN  IF listing.threw THEN Thrown
        ELSE rootVisits(disk, failing, dir, source, listing.val)

loadSkillsFromDir(disk, failing, dir, source) ==
    LET listing == readdir(disk, failing, dir)
    IN  IF listing.threw THEN Ok(<<>>)
        ELSE rootVisits(disk, failing, dir, source, listing.val)

(***************************************************************************)
(* Merge and enrichment (loadSkillEntries of skills.ts)                    *)
(***************************************************************************)

\* Map.prototype.set on a map kept as the sequence of its values in
\* insertion order: a known key keeps its place and gets the new value
mapSetKeepFirst(map, skill) ==
    IF \E i \in 1..Len(map) : map[i].name = skill.name THEN map ELSE Append(map, skill)

mapSetByCommandName(map, skill) ==
    IF \E i \in 1..Len(map) : sanitizeCommandName(map[i].name) = sanitizeCommandName(skill.name)
    THEN [i \in 1..Len(map) |->
             IF sanitizeCommandName(map[i].name) = sanitizeCommandName(skill.name)
             THEN skill ELSE map[i]]
    ELSE Append(map, skill)

mapSetMoveToEnd(map, skill) ==
    Append(SelectSeq(map, LAMBDA other : other.name # skill.name), skill)

mapSet(map, skill) ==
    IF \E i \in 1..Len(map) : map[i].name = skill.name
    THEN [i \in 1..Len(map) |-> IF map[i].name = skill.name THEN skill ELSE map[i]]
    ELSE Append(map, skill)

\* for (const skill of skills) merged.set(skill.name, skill)
RECURSIVE mergeInto(_, _)
mergeInto(map, skills) ==
    IF skills = <<>> THEN map ELSE mergeInto(mapSet(map, Head(skills)), Tail(skills))

enrichKeepSkillFlag(disk, parsed, failing, map) ==
    [i \in 1..Len(map) |->
        LET read        == readFile(disk, failing, map[i].filePath)
            frontmatter == IF read.threw THEN EmptyFrontmatter ELSE parsed[map[i].filePath]
        IN  [skill |-> map[i], frontmatter |-> frontmatter,
             invocation |->
                 IF read.threw
                 THEN [userInvocable          |-> TRUE,
                       disableModelInvocation |-> map[i].disableModelInvocation]
                 ELSE resolveInvocationPolicy(frontmatter)]]

\* parseFrontmatter of the text of every file of a disk
parsedFiles(disk) ==
    [f \in DOMAIN disk.files |-> parseFrontmatter(disk.files[f])]

\* the enrichment loop of loadSkillEntries: every merged skill gets the
\* header of a second read of its file, or {} when that read throws; parsed
\* is parsedFiles(disk)
enrich(disk, parsed, failing, map) ==
    [i \in 1..Len(map) |->
        LET read        == readFile(disk, failing, map[i].filePath)
            frontmatter == IF read.threw THEN EmptyFrontmatter ELSE parsed[map[i].filePath]
        IN  [skill |-> map[i], frontmatter |-> frontmatter,
             invocation |-> resolveInvocationPolicy(frontmatter)]]

\* the directories a SkillManager is constructed with
ManagedDir ==
    <<"/","m">>

WorkspaceDir ==
    <<"/","w">>

\* path.join(workspaceDir, "skills")
workspaceSkillsDir ==
    pathJoin(WorkspaceDir, <<"s","k","i","l","l","s">>)

\* the text of a skill file with the given header lines
skillFile(lines) ==
    <<"-","-","-","\n">> \o join(lines, <<"\n">>) \o <<"\n","-","-","-","\n","#"," ","S","k","i","l","l","\n">>

\* the paths of a disk at or below a directory
pathsUnder(disk, dir) ==
    {dir} \cup {p \in DOMAIN disk.dirs \cup DOMAIN disk.files : startsWith(p, dir \o <<"/">>)}

\* the file paths of a list of skills
filePathsOf(skills) ==
    {skills[i].filePath : i \in 1..Len(skills)}

(***************************************************************************)
(* SkillManager.loadAll under concurrent callers                           *)
(***************************************************************************)
\* the file system of the concurrent loads:
\*   /m/foo/SKILL.md        name: foo, description: mf
\*   /m/Foo.md              name: Foo, description: mF
\*   /w/skills/FOO/SKILL.md description: " wf", disable-model-invocation: True,
\*                          user-invocable: no
LoadDisk ==
    [dirs  |-> (<<"/","m">> :> << <<"f","o","o">>, <<"F","o","o",".","m","d">> >>)
               @@ (<<"/","m","/","f","o","o">> :> << SKILL_MD >>)
               @@ (<<"/","w","/","s","k","i","l","l","s">> :> << <<"F","O","O">> >>)
               @@ (<<"/","w","/","s","k","i","l","l","s","/","F","O","O">> :> << SKILL_MD >>),
     files |-> (<<"/","m","/","f","o","o","/","S","K","I","L","L",".","m","d">> :> skillFile(<< <<"n","a","m","e",":"," ","f","o","o">>, <<"d","e","s","c","r","i","p","t","i","o","n",":"," ","m","f">> >>))
               @@ (<<"/","m","/","F","o","o",".","m","d">> :> skillFile(<< <<"n","a","m","e",":"," ","F","o","o">>, <<"d","e","s","c","r","i","p","t","i","o","n",":"," ","m","F">> >>))
               @@ (<<"/","w","/","s","k","i","l","l","s","/","F","O","O","/","S","K","I","L","L",".","m","d">> :>
                       skillFile(<< <<"d","e","s","c","r","i","p","t","i","o","n",":"," ","\""," ","w","f","\"">>,
                                    <<"d","i","s","a","b","l","e","-","m","o","d","e","l","-","i","n","v","o","c","a","t","i","o","n",":"," ","T","r","u","e">>,
                                    <<"u","s","e","r","-","i","n","v","o","c","a","b","l","e",":"," ","n","o">> >>))]

NumCallers == 2

Callers ==
    1..NumCallers

LoadInit ==
    /\ loaded = FALSE
    /\ entries = <<>>
    /\ commands = <<>>
    /\ pc = [c \in Callers |-> "idle"]
    /\ managedSkills = [c \in Callers |-> <<>>]
    /\ workspaceSkills = [c \in Callers |-> <<>>]
    /\ merged = [c \in Callers |-> <<>>]
    /\ enriched = [c \in Callers |-> <<>>]
    /\ scans = 0
    /\ tpOff /\ sanOff /\ synOff
    /\ invOff /\ prOff /\ mpOff /\ plOff

\* a call of loadAll (directly or from match, get, list, listCommands,
\* buildSkillsPrompt) up to its first await
Call(c) ==
    /\ pc[c] = "idle"
    /\ IF loaded
       THEN /\ pc' = [pc EXCEPT ![c] = "returned"]
            /\ UNCHANGED scans
       ELSE /\ pc' = [pc EXCEPT ![c] = "scanManaged"]
            /\ scans' = scans + 1
    /\ UNCHANGED <<mgrVars, managedSkills, workspaceSkills, merged, enriched>>
    /\ UNCHANGED otherVars

LoadParsed ==
    parsedFiles(LoadDisk)

\* what a scan of the managed directory, and of <workspace>/skills, can
\* return: one outcome for every set of paths whose read fails
ManagedScans ==
    {loadSkillsFromDir(LoadDisk, failing, ManagedDir, "managed") :
        failing \in SUBSET pathsUnder(LoadDisk, ManagedDir)}

WorkspaceScans ==
    {loadSkillsFromDir(LoadDisk, failing, workspaceSkillsDir, "workspace") :
        failing \in SUBSET pathsUnder(LoadDisk, workspaceSkillsDir)}

\* the scan of the managed directory completes and its skills are merged; an
\* exception that leaves loadSkillsFromDir rejects loadAll
ScanManaged(c) ==
    /\ pc[c] = "scanManaged"
    /\ \E found \in ManagedScans :
           IF found.threw
           THEN /\ pc' = [pc EXCEPT ![c] = "rejected"]
                /\ UNCHANGED <<managedSkills, merged>>
           ELSE /\ managedSkills' = [managedSkills EXCEPT ![c] = found.val]
                /\ merged' = [merged EXCEPT ![c] = mergeInto(<<>>, found.val)]
                /\ pc' = [pc EXCEPT ![c] = "scanWorkspace"]
    /\ UNCHANGED <<mgrVars, workspaceSkills, enriched, scans, otherVars>>

\* the scan of <workspace>/skills completes and its skills are merged
ScanWorkspace(c) ==
    /\ pc[c] = "scanWorkspace"
    /\ \E found \in WorkspaceScans :
           IF found.threw
           THEN /\ pc' = [pc EXCEPT ![c] = "rejected"]
                /\ UNCHANGED <<workspaceSkills, merged>>
           ELSE /\ workspaceSkills' = [workspaceSkills EXCEPT ![c] = found.val]
                /\ merged' = [merged EXCEPT ![c] = mergeInto(merged[c], found.val)]
                /\ pc' = [pc EXCEPT ![c] = "enrich"]
    /\ UNCHANGED <<mgrVars, managedSkills, enriched, scans, otherVars>>

\* the files of the merged skills are read again; loadSkillEntries returns
\* (its other locals are dead from here on)
Enrich(c) ==
    /\ pc[c] = "enrich"
    /\ \E failing \in SUBSET filePathsOf(merged[c]) :
           enriched' = [enriched EXCEPT ![c] = enrich(LoadDisk, LoadParsed, failing, merged[c])]
    /\ pc' = [pc EXCEPT ![c] = "store"]
    /\ managedSkills' = [managedSkills EXCEPT ![c] = <<>>]
    /\ workspaceSkills' = [workspaceSkills EXCEPT ![c] = <<>>]
    /\ merged' = [merged EXCEPT ![c] = <<>>]
    /\ UNCHANGED <<mgrVars, scans, otherVars>>

StoreCommandsOnce(c) ==
    /\ pc[c] = "store"
    /\ entries' = enriched[c]
    /\ commands' = IF loaded THEN commands ELSE buildSkillCommandSpecs(enriched[c])
    /\ loaded' = TRUE
    /\ pc' = [pc EXCEPT ![c] = "returned"]
    /\ enriched' = [enriched EXCEPT ![c] = <<>>]
    /\ UNCHANGED <<managedSkills, workspaceSkills, merged, scans, otherVars>>

\* loadAll resumes after its await: entries, commands and loaded are set
Store(c) ==
    /\ pc[c] = "store"
    /\ entries' = enriched[c]
    /\ commands' = buildSkillCommandSpecs(enriched[c])
    /\ loaded' = TRUE
    /\ pc' = [pc EXCEPT ![c] = "returned"]
    /\ enriched' = [enriched EXCEPT ![c] = <<>>]
    /\ UNCHANGED <<managedSkills, workspaceSkills, merged, scans, otherVars>>

\* the caller got its result and may call again
Return(c) ==
    /\ pc[c] = "returned"
    /\ pc' = [pc EXCEPT ![c] = "idle"]
    /\ UNCHANGED <<mgrVars, managedSkills, workspaceSkills, merged, enriched, scans, otherVars>>

LoadNext ==
    \E c \in Callers :
        \/ Call(c)
        \/ ScanManaged(c)
        \/ ScanWorkspace(c)
        \/ Enrich(c)
        \/ Store(c)
        \/ Return(c)

SpecLoad ==
    LoadInit /\ [][LoadNext]_vars

\* C1: the pipeline of one manager is started at most once, whatever the
\* interleaving of the concurrent callers.
C1_AtMostOneScan ==
    scans <= 1

\* C2: once loaded is true, a call that starts returns without scanning and
\* entries and commands are never replaced.
C2_CachedForever ==
    [][loaded =>
          /\ entries' = entries
          /\ commands' = commands
          /\ scans' = scans
          /\ \A c \in Callers :
                 (pc[c] = "idle" /\ pc'[c] # "idle") => pc'[c] = "returned"]_vars

namesOf(skills) ==
    {skills[i].name : i \in 1..Len(skills)}

\* the last skill of a list that carries a name
lastNamed(skills, name) ==
    skills[CHOOSE i \in 1..Len(skills) :
               /\ skills[i].name = name
               /\ \A j \in (i + 1)..Len(skills) : skills[j].name # name]

\* C5: after the merge of the managed and then the workspace skills there is
\* exactly one skill per distinct name, and a name found in both sources
\* carries the workspace record, whole.
C5_MergeLastWins ==
    \A c \in Callers :
        pc[c] = "enrich" =>
            /\ namesOf(merged[c]) = namesOf(managedSkills[c]) \cup namesOf(workspaceSkills[c])
            /\ \A i, j \in 1..Len(merged[c]) :
                   merged[c][i].name = merged[c][j].name => i = j
            /\ \A i \in 1..Len(merged[c]) :
                   merged[c][i] =
                       IF merged[c][i].name \in namesOf(workspaceSkills[c])
                       THEN lastNamed(workspaceSkills[c], merged[c][i].name)
                       ELSE lastNamed(managedSkills[c], merged[c][i].name)

\* a name scanned in both sources, merged
C5_Witness ==
    \E c \in Callers :
        /\ pc[c] = "enrich"
        /\ namesOf(managedSkills[c]) \cap namesOf(workspaceSkills[c]) # {}
        /\ Len(merged[c]) = 2

\* what a caller whose loadAll returned can read
observable ==
    \E c \in Callers : pc[c] = "returned"

\* entries and commands change only together, in the step of one load that
\* resumes after its await, and that step sets loaded
writtenTogether ==
    (entries' # entries \/ commands' # commands) =>
        \E c \in Callers :
            /\ pc[c] = "store"
            /\ entries' = enriched[c]
            /\ commands' = buildSkillCommandSpecs(entries')
            /\ loaded'

\* C23: whenever a caller's loadAll has returned, loaded is true and commands
\* is the synthesis of entries; the two lists are only ever written together,
\* by one load, so no state mixes the lists of two loads or holds the initial
\* lists with loaded = true.
C23_ObserversSeeOneLoad ==
    /\ [](observable => (loaded /\ commands = buildSkillCommandSpecs(entries)))
    /\ [](loaded \/ (entries = <<>> /\ commands = <<>>))
    /\ [][writtenTogether]_vars

\* two loads ran concurrently, both callers returned and read the lists of
\* the load that stored last
C23_Witness ==
    /\ \A c \in Callers : pc[c] = "returned"
    /\ scans >= 2
    /\ loaded
    /\ Len(entries) = 2
    /\ Len(commands) = 1

(***************************************************************************)
(* sanitizeCommandName applied to one input                                *)
(***************************************************************************)
MaxAffix == 1
MaxFill == 34

\* a lower-case letter, an upper-case letter, a digit, the underscore and a
\* character outside [a-z0-9_]
SanAlphabet ==
    {"a", "Z", "9", "_", " "}

rep(c, n) ==
    [i \in 1..n |-> c]

\* a run of one character between two short arbitrary strings
SanitizeInputs ==
    {p \o rep(c, k) \o q :
        p \in SeqsUpTo(SanAlphabet, MaxAffix), q \in SeqsUpTo(SanAlphabet, MaxAffix),
        c \in SanAlphabet, k \in 0..MaxFill}

SanitizeInit ==
    /\ sanRaw \in SanitizeInputs
    /\ sanOut = <<>>
    /\ sanPc = "call"
    /\ tpOff /\ synOff /\ mgrOff
    /\ invOff /\ prOff /\ mpOff /\ plOff

CallSanitizeCommandName ==
    /\ sanPc = "call"
    /\ sanOut' = sanitizeCommandName(sanRaw)
    /\ sanPc' = "done"
    /\ UNCHANGED <<sanRaw, tpVars, synVars, mgrVars, callVars>>
    /\ UNCHANGED <<invVars, prVars, mpVars, plVars>>

SanitizeNext ==
    CallSanitizeCommandName

SpecSanitize ==
    SanitizeInit /\ [][SanitizeNext]_vars

\* C7: the result of sanitizeCommandName has 1 to 32 characters, all of
\* [a-z0-9_], and is "skill" when the lower-cased input holds no letter and
\* no digit.
C7_SanitizedShape ==
    sanPc = "done" =>
        /\ Len(sanOut) >= 1 /\ Len(sanOut) <= 32
        /\ \A i \in 1..Len(sanOut) : sanOut[i] \in CommandChars
        /\ (\A i \in 1..Len(sanRaw) : LowerChar(sanRaw[i]) \notin (CommandChars \ {"_"}))
               => sanOut = <<"s","k","i","l","l">>

\* an input longer than 32 characters after clean-up, cut to 32
C7_Witness ==
    /\ sanPc = "done"
    /\ Len(sanRaw) > 32
    /\ Len(sanOut) = 32
    /\ \E i \in 1..Len(sanRaw) : sanRaw[i] = "Z"

(***************************************************************************)
(* buildSkillCommandSpecs applied to one list of entries                   *)
(***************************************************************************)
MaxEntries == 3
MaxSameBase == 1001

\* a SkillEntry as loadSkillEntries builds it from a file that declares
\* name and description, and user-invocable when it is false
mkEntry(name, description, userInvocable) ==
    LET frontmatter == Frontmatter(Some(name), Some(description), Undefined,
                                   IF userInvocable THEN Undefined
                                   ELSE Some(<<"f","a","l","s","e">>))
    IN  [skill       |-> [name |-> name, description |-> description,
                          filePath |-> <<"/","w","/","s","k","i","l","l","s","/","S","K","I","L","L",".","m","d">>,
                          baseDir |-> <<"/","w","/","s","k","i","l","l","s">>,
                          source |-> "workspace", disableModelInvocation |-> FALSE],
         frontmatter |-> frontmatter,
         invocation  |-> resolveInvocationPolicy(frontmatter)]

\* a SkillEntry built from a file that declares name, description and the
\* given values of disable-model-invocation and user-invocable
mkEntryFm(name, description, dmi, ui) ==
    LET frontmatter == Frontmatter(Some(name), Some(description), dmi, ui)
    IN  [skill       |-> [name |-> name, description |-> description,
                          filePath |-> <<"/","w","/","s","k","i","l","l","s","/","S","K","I","L","L",".","m","d">>,
                          baseDir |-> <<"/","w","/","s","k","i","l","l","s">>,
                          source |-> "workspace",
                          disableModelInvocation |-> parseBool(dmi, FALSE)],
         frontmatter |-> frontmatter,
         invocation  |-> resolveInvocationPolicy(frontmatter)]

\* a name of 33 characters, "aaaaaaaaaaaaaaaaaaaaaaaaaaaaaaa b"
LongName ==
    rep("a", 31) \o <<" ", "b">>

SynthEntryPool ==
    { mkEntry(<<"D","e","p","l","o","y"," ","S","e","r","v","i","c","e">>, <<"d">>, TRUE),
      mkEntry(<<"d","e","p","l","o","y","_","s","e","r","v","i","c","e">>, rep("d", 100), TRUE),
      mkEntry(<<"d","e","p","l","o","y","_","s","e","r","v","i","c","e","_","2">>, <<"d">>, TRUE),
      mkEntry(<<"d","e","p","l","o","y","-","s","e","r","v","i","c","e">>, <<"d">>, FALSE),
      mkEntry(<<"!","!">>, <<"d">>, TRUE),
      mkEntry(LongName, rep("d", 101), TRUE),
      mkEntry(toUpperCase(LongName), <<" ">> \o rep("d", 100) \o <<" ">>, TRUE),
      mkEntry(rep("n", 101), <<" ">>, TRUE),
      mkEntryFm(<<"d","e","p","l","o","y"," ","s","e","r","v","i","c","e">>, <<"d">>, Some(<<"y","e","s">>), Undefined),
      mkEntryFm(<<"D","e","p","l","o","y",".","S","e","r","v","i","c","e">>, <<"d">>, Some(<<"1">>), Some(<<" ","N","O"," ">>)) }

\* the strings of at most three characters over " ", "-" and "."
affix(m) ==
    LET sym == <<" ", "-", ".">>
    IN  IF m = 0 THEN <<>>
        ELSE IF m <= 3 THEN <<sym[m]>>
        ELSE IF m <= 12 THEN <<sym[((m - 4) \div 3) + 1], sym[((m - 4) % 3) + 1]>>
        ELSE <<sym[(((m - 13) \div 9) % 3) + 1], sym[(((m - 13) \div 3) % 3) + 1],
               sym[((m - 13) % 3) + 1]>>

\* the k-th of 1600 distinct skill names that all sanitize to "a"
sameBaseName(k) ==
    affix((k - 1) \div 40) \o <<"a">> \o affix((k - 1) % 40)

\* n entries with distinct names and the same base; the descriptions of the
\* entries from SUFFIX_LIMIT on are too long
sameBaseEntries(n) ==
    [k \in 1..n |->
        mkEntry(sameBaseName(k), IF k < SUFFIX_LIMIT THEN <<"d">> ELSE rep("d", 101), TRUE)]

distinctNames(skillEntries) ==
    \A i, j \in 1..Len(skillEntries) :
        i # j => skillEntries[i].skill.name # skillEntries[j].skill.name

SynthInputs ==
    {l \in SeqsUpTo(SynthEntryPool, MaxEntries) : distinctNames(l)}
    \cup {sameBaseEntries(MaxSameBase)}

SynthInit ==
    /\ synEntries \in SynthInputs
    /\ synSpecs = <<>>
    /\ synPc = "call"
    /\ tpOff /\ sanOff /\ mgrOff
    /\ invOff /\ prOff /\ mpOff /\ plOff

CallBuildSkillCommandSpecs ==
    /\ synPc = "call"
    /\ synSpecs' = buildSkillCommandSpecs(synEntries)
    /\ synPc' = "done"
    /\ UNCHANGED <<synEntries, tpVars, sanVars, mgrVars, callVars>>
    /\ UNCHANGED <<invVars, prVars, mpVars, plVars>>

SynthNext ==
    CallBuildSkillCommandSpecs

SpecSynth ==
    SynthInit /\ [][SynthNext]_vars

\* C6: no two command specs of one synthesis pass carry the same name,
\* compared case-insensitively, however many entries share a base.
C6_UniqueCommandNames ==
    synPc = "done" =>
        \A i, j \in 1..Len(synSpecs) :
            i # j => toLowerCase(synSpecs[i].name) # toLowerCase(synSpecs[j].name)

\* the entries of the input that are user-invocable, in order
synIncluded ==
    SelectSeq(synEntries, LAMBDA e : e.invocation.userInvocable = TRUE)

\* the entries with disableModelInvocation cleared everywhere
clearModelInvocation(skillEntries) ==
    [i \in 1..Len(skillEntries) |->
        [skill       |-> [skillEntries[i].skill EXCEPT !.disableModelInvocation = FALSE],
         frontmatter |-> [skillEntries[i].frontmatter EXCEPT !.dmi = Undefined],
         invocation  |-> [skillEntries[i].invocation EXCEPT !.disableModelInvocation = FALSE]]]

\* the header value of user-invocable reads as false
parsesToFalse(value) ==
    value.some /\ toLowerCase(trim(value.val)) \in {<<"f","a","l","s","e">>, <<"n","o">>, <<"0">>}

\* C18: the command list holds one command per user-invocable entry, in the
\* order of the entries, and none for an entry whose user-invocable parses
\* to false; the list is the one the user-invocable entries alone produce
\* (an excluded entry reserves no name) and the one the entries produce with
\* disableModelInvocation cleared.
C18_OnlyUserInvocable ==
    synPc = "done" =>
        /\ Len(synSpecs) = Len(synIncluded)
        /\ \A k \in 1..Len(synSpecs) : synSpecs[k].skillName = synIncluded[k].skill.name
        /\ \A i \in 1..Len(synEntries) :
               parsesToFalse(synEntries[i].frontmatter.ui) =>
                   \A k \in 1..Len(synSpecs) : synSpecs[k].skillName # synEntries[i].skill.name
        /\ synIncluded = synEntries \/ buildSkillCommandSpecs(synIncluded) = synSpecs
        /\ \/ clearModelInvocation(synEntries) = synEntries
           \/ buildSkillCommandSpecs(clearModelInvocation(synEntries)) = synSpecs

\* an excluded entry before two entries of its base, one of them with model
\* invocation disabled: the first of the two gets the bare name
C18_Witness ==
    /\ synPc = "done"
    /\ Len(synEntries) = 3
    /\ synEntries[1].invocation.userInvocable = FALSE
    /\ sanitizeCommandName(synEntries[1].skill.name) = <<"d","e","p","l","o","y","_","s","e","r","v","i","c","e">>
    /\ synEntries[2].invocation.disableModelInvocation = TRUE
    /\ Len(synSpecs) = 2
    /\ synSpecs[1].name = <<"d","e","p","l","o","y","_","s","e","r","v","i","c","e">>
    /\ synSpecs[2].name = <<"d","e","p","l","o","y","_","s","e","r","v","i","c","e","_","2">>

\* C8: every command spec has a name of 1 to 32 characters of [a-z0-9_] and
\* a description of at most 100 characters, the ellipsis included.
C8_CommandSpecShape ==
    synPc = "done" =>
        \A i \in 1..Len(synSpecs) :
            /\ Len(synSpecs[i].name) >= 1 /\ Len(synSpecs[i].name) <= 32
            /\ \A k \in 1..Len(synSpecs[i].name) : synSpecs[i].name[k] \in CommandChars
            /\ Len(synSpecs[i].description) <= 100

\* the pass over MaxSameBase entries of one base: a numeric suffix, the `_x`
\* fallback and a truncated description
C8_Witness ==
    /\ synPc = "done"
    /\ \E i \in 1..Len(synSpecs) : synSpecs[i].name = <<"a", "_", "9", "9", "9">>
    /\ \E i \in 1..Len(synSpecs) :
           /\ synSpecs[i].name = <<"a", "_", "x">>
           /\ Len(synSpecs[i].description) = 100
           /\ synSpecs[i].description[100] = Ellipsis

(***************************************************************************)
(* Command matching (skills.ts)                                            *)
(***************************************************************************)
\* the characters of the class [\s_]
LookupSeparators ==
    WhiteSpace \cup {"_"}

normalizeForLookupNoHyphen(value) ==
    toLowerCase(trim(value))

\* value.trim().toLowerCase().replace(/[\s_]+/g, "-"): of every maximal run
\* of white space and underscores the first character stays, as a hyphen
normalizeForLookup(value) ==
    LET s    == toLowerCase(trim(value))
        kept == SelectSeq(indices(s),
                          LAMBDA i : \/ s[i] \notin LookupSeparators
                                     \/ i = 1
                                     \/ s[i - 1] \notin LookupSeparators)
    IN  [k \in 1..Len(kept) |-> IF s[kept[k]] \in LookupSeparators THEN "-" ELSE s[kept[k]]]

\* the four tests of findSkillCommand on one command
lookupHit(entry, lowered, normalized) ==
    \/ toLowerCase(entry.name) = lowered
    \/ toLowerCase(entry.skillName) = lowered
    \/ normalizeForLookup(entry.name) = normalized
    \/ normalizeForLookup(entry.skillName) = normalized

findSkillCommandLastHit(cmds, rawName) ==
    LET trimmed    == trim(rawName)
        lowered    == toLowerCase(trimmed)
        normalized == normalizeForLookup(trimmed)
        hits       == SelectSeq(cmds, LAMBDA entry : lookupHit(entry, lowered, normalized))
    IN  IF trimmed = <<>> \/ hits = <<>> THEN Undefined ELSE Some(hits[Len(hits)])

\* commands.find(...): the first command that passes a test, or undefined
findSkillCommand(cmds, rawName) ==
    LET trimmed    == trim(rawName)
        lowered    == toLowerCase(trimmed)
        normalized == normalizeForLookup(trimmed)
        hits       == SelectSeq(cmds, LAMBDA entry : lookupHit(entry, lowered, normalized))
    IN  IF trimmed = <<>> \/ hits = <<>> THEN Undefined ELSE Some(Head(hits))

NoMatch ==
    [matched |-> FALSE, token |-> <<>>, rest |-> Undefined]

\* s.match(/^([^\s]+)(?:\s+([\s\S]+))?$/): the first token, which starts s,
\* and what follows the white space after it, when there is any
tokenAndRest(s) ==
    LET ws      == {i \in 1..Len(s) : s[i] \in WhiteSpace}
        firstWs == IF ws = {} THEN Len(s) + 1 ELSE CHOOSE i \in ws : \A j \in ws : i <= j
        other   == {i \in firstWs..Len(s) : s[i] \notin WhiteSpace}
    IN  IF firstWs = 1 THEN NoMatch
        ELSE IF firstWs > Len(s) THEN [matched |-> TRUE, token |-> s, rest |-> Undefined]
        ELSE IF other # {}
             THEN [matched |-> TRUE, token |-> SubSeq(s, 1, firstWs - 1),
                   rest |-> Some(SubSeq(s, CHOOSE i \in other : \A j \in other : i <= j, Len(s)))]
        ELSE IF Len(s) > firstWs
             THEN [matched |-> TRUE, token |-> SubSeq(s, 1, firstWs - 1),
                   rest |-> Some(<<s[Len(s)]>>)]
        ELSE NoMatch

\* the keyword of `/skill <target> <args>`
DispatchKeyword ==
    <<"s","k","i","l","l">>

NoCommand ==
    [name |-> <<>>, skillName |-> <<>>, description |-> <<>>]

\* the result null
Miss ==
    [hit |-> FALSE, command |-> NoCommand, args |-> Undefined]

\* the result {command, args}
Hit(command, args) ==
    [hit |-> TRUE, command |-> command, args |-> args]

\* `rest?.trim() || undefined`
optionalArgs(rest) ==
    IF rest.some /\ trim(rest.val) # <<>> THEN Some(trim(rest.val)) ELSE Undefined

\* commands.find((entry) => entry.name.toLowerCase() === commandName)
findByName(cmds, commandName) ==
    LET hits == SelectSeq(cmds, LAMBDA entry : toLowerCase(entry.name) = commandName)
    IN  IF hits = <<>> THEN Undefined ELSE Some(Head(hits))

\* the branch `/skill <target> <args>` of resolveCommandInvocation
resolveKeywordInvocation(match, cmds) ==
    LET remainder  == IF match.rest.some THEN trim(match.rest.val) ELSE <<>>
        skillMatch == tokenAndRest(remainder)
        cmd        == findSkillCommand(cmds, skillMatch.token)
    IN  IF remainder = <<>> THEN Miss
        ELSE IF ~skillMatch.matched THEN Miss
        ELSE IF ~cmd.some THEN Miss
        ELSE Hit(cmd.val, optionalArgs(skillMatch.rest))

resolveCommandInvocationFlexible(input, cmds) ==
    LET trimmed == trim(input)
        match   == tokenAndRest(Tail(trimmed))
        commandName == toLowerCase(trim(match.token))
        cmd     == findSkillCommand(cmds, commandName)
    IN  IF trimmed = <<>> \/ Head(trimmed) # "/" THEN Miss
        ELSE IF ~match.matched THEN Miss
        ELSE IF commandName = <<>> THEN Miss
        ELSE IF commandName = DispatchKeyword THEN resolveKeywordInvocation(match, cmds)
        ELSE IF ~cmd.some THEN Miss
        ELSE Hit(cmd.val, optionalArgs(match.rest))

resolveCommandInvocationDirectFirst(input, cmds) ==
    LET trimmed == trim(input)
        match   == tokenAndRest(Tail(trimmed))
        commandName == toLowerCase(trim(match.token))
        cmd     == findByName(cmds, commandName)
    IN  IF trimmed = <<>> \/ Head(trimmed) # "/" THEN Miss
        ELSE IF ~match.matched THEN Miss
        ELSE IF commandName = <<>> THEN Miss
        ELSE IF cmd.some THEN Hit(cmd.val, optionalArgs(match.rest))
        ELSE IF commandName = DispatchKeyword THEN resolveKeywordInvocation(match, cmds)
        ELSE Miss

resolveCommandInvocation(input, cmds) ==
    LET trimmed == trim(input)
        match   == tokenAndRest(Tail(trimmed))
        commandName == toLowerCase(trim(match.token))
        cmd     == findByName(cmds, commandName)
    IN  IF trimmed = <<>> \/ Head(trimmed) # "/" THEN Miss
        ELSE IF ~match.matched THEN Miss
        ELSE IF commandName = <<>> THEN Miss
        ELSE IF commandName = DispatchKeyword THEN resolveKeywordInvocation(match, cmds)
        ELSE IF ~cmd.some THEN Miss
        ELSE Hit(cmd.val, optionalArgs(match.rest))

(***************************************************************************)
(* resolveCommandInvocation applied to one input and one command list      *)
(***************************************************************************)
\* the number of skills behind the command list
MaxCommands == 2

\* the skills "Deploy Service", "deploy_service", "Deploy-Service", "Deploy"
\* and "!!"
InvokeEntryPool ==
    { mkEntry(<<"D","e","p","l","o","y"," ","S","e","r","v","i","c","e">>, <<"d">>, TRUE),
      mkEntry(<<"d","e","p","l","o","y","_","s","e","r","v","i","c","e">>, <<"d">>, TRUE),
      mkEntry(<<"D","e","p","l","o","y","-","S","e","r","v","i","c","e">>, <<"d">>, TRUE),
      mkEntry(<<"D","e","p","l","o","y">>, <<"d">>, TRUE),
      mkEntry(<<"!","!">>, <<"d">>, TRUE) }

\* the command lists a load can produce from at most MaxCommands skills
InvokeCommandLists ==
    {buildSkillCommandSpecs(l) :
        l \in {m \in SeqsUpTo(InvokeEntryPool, MaxCommands) : distinctNames(m)}}

\* "skill", "SKILL", "deploy_service", "Deploy_Service", "Deploy-Service",
\* "Deploy", "deploy_service_2", "x"
InvokeWords ==
    { <<"s","k","i","l","l">>, <<"S","K","I","L","L">>, <<"d","e","p","l","o","y","_","s","e","r","v","i","c","e">>, <<"D","e","p","l","o","y","_","S","e","r","v","i","c","e">>,
      <<"D","e","p","l","o","y","-","S","e","r","v","i","c","e">>, <<"D","e","p","l","o","y">>, <<"d","e","p","l","o","y","_","s","e","r","v","i","c","e","_","2">>, <<"x">> }

\* "", " args here", " \n args  here"
InvokeArgs ==
    { <<>>, <<" ","a","r","g","s"," ","h","e","r","e">>, <<" ","\n"," ","a","r","g","s"," "," ","h","e","r","e">> }

\* `/w`, `/w w` and `/w w args`, bare or surrounded by white space, and a few
\* inputs that are no command: "", "/", "/ deploy_service", "deploy_service",
\* "/skill \t"
InvokeInputs ==
    LET bare == {<<"/">> \o w : w \in InvokeWords}
                \cup {<<"/">> \o w1 \o <<" ">> \o w2 \o a :
                         w1 \in InvokeWords, w2 \in InvokeWords, a \in InvokeArgs}
    IN  bare \cup {padded(s) : s \in bare}
        \cup { <<>>, <<"/">>, <<"/"," ","d","e","p","l","o","y","_","s","e","r","v","i","c","e">>, <<"d","e","p","l","o","y","_","s","e","r","v","i","c","e">>, <<"/","s","k","i","l","l"," ","\t">> }

InvokeInit ==
    /\ invInput \in InvokeInputs
    /\ invCommands \in InvokeCommandLists
    /\ invResult = Miss
    /\ invPc = "call"
    /\ tpOff /\ sanOff /\ synOff /\ mgrOff
    /\ prOff /\ mpOff /\ plOff

CallResolveCommandInvocation ==
    /\ invPc = "call"
    /\ invResult' = resolveCommandInvocation(invInput, invCommands)
    /\ invPc' = "done"
    /\ UNCHANGED <<invInput, invCommands>>
    /\ UNCHANGED <<tpVars, sanVars, synVars, mgrVars, callVars, prVars, mpVars, plVars>>

InvokeNext ==
    CallResolveCommandInvocation

SpecInvoke ==
    InvokeInit /\ [][InvokeNext]_vars

(***************************************************************************)
(* Properties of command matching                                          *)
(***************************************************************************)
\* what follows the `/` that starts the trimmed input
invAfterSlash ==
    LET t == trim(invInput)
    IN  IF t # <<>> /\ Head(t) = "/" THEN Some(Tail(t)) ELSE Undefined

\* the characters of s before its first white space
RECURSIVE firstWord(_)
firstWord(s) ==
    IF s = <<>> \/ Head(s) \in WhiteSpace THEN <<>> ELSE <<Head(s)>> \o firstWord(Tail(s))

\* what follows the first word of s, trimmed
afterFirstWord(s) ==
    trim(SubSeq(s, Len(firstWord(s)) + 1, Len(s)))

\* an optional argument string: absent when empty
argsOf(rest) ==
    IF rest = <<>> THEN Undefined ELSE Some(rest)

RECURSIVE dropSeparators(_)
dropSeparators(s) ==
    IF s # <<>> /\ Head(s) \in LookupSeparators THEN dropSeparators(Tail(s)) ELSE s

RECURSIVE hyphenate(_)
hyphenate(s) ==
    IF s = <<>> THEN <<>>
    ELSE IF Head(s) \in LookupSeparators THEN <<"-">> \o hyphenate(dropSeparators(s))
    ELSE <<Head(s)>> \o hyphenate(Tail(s))

\* the normalized form of the matcher: trimmed, lower case, every run of
\* white space and underscores a single hyphen
lookupForm(s) ==
    hyphenate(toLowerCase(trim(s)))

\* a command passes one of the four tests of keyword dispatch on a target
passesTest(cmd, target) ==
    \/ toLowerCase(cmd.name) = toLowerCase(target)
    \/ toLowerCase(cmd.skillName) = toLowerCase(target)
    \/ lookupForm(cmd.name) = lookupForm(target)
    \/ lookupForm(cmd.skillName) = lookupForm(target)

DeployServiceCommand(cmd) ==
    /\ cmd.skillName = <<"D","e","p","l","o","y"," ","S","e","r","v","i","c","e">>
    /\ cmd.name = <<"d","e","p","l","o","y","_","s","e","r","v","i","c","e">>

\* C11 (as stated): with the command deploy_service of the skill
\* "Deploy Service" in the list, the input `/skill Deploy args here` resolves
\* to that command with the arguments "args here".
C11_DeployResolves ==
    ( /\ invPc = "done"
      /\ invInput = <<"/","s","k","i","l","l"," ","D","e","p","l","o","y"," ","a","r","g","s"," ","h","e","r","e">>
      /\ \E i \in 1..Len(invCommands) : DeployServiceCommand(invCommands[i]) )
    => /\ invResult.hit
       /\ DeployServiceCommand(invResult.command)
       /\ invResult.args = Some(<<"a","r","g","s"," ","h","e","r","e">>)

\* C11 (amended): with that command in the list, the input
\* `/skill Deploy-Service args here` resolves to it with the arguments
\* "args here", through the normalized comparison (target and command name
\* differ as lower-case strings and agree once normalized), and the input
\* `/skill Deploy args here` never resolves to it.
C11_FullTargetResolves ==
    ( /\ invPc = "done"
      /\ \E i \in 1..Len(invCommands) : DeployServiceCommand(invCommands[i]) )
    => /\ invInput = <<"/","s","k","i","l","l"," ","D","e","p","l","o","y","-","S","e","r","v","i","c","e"," ","a","r","g","s"," ","h","e","r","e">> =>
              /\ invResult.hit
              /\ DeployServiceCommand(invResult.command)
              /\ invResult.args = Some(<<"a","r","g","s"," ","h","e","r","e">>)
              /\ toLowerCase(invResult.command.name) # toLowerCase(<<"D","e","p","l","o","y","-","S","e","r","v","i","c","e">>)
              /\ toLowerCase(invResult.command.skillName) # toLowerCase(<<"D","e","p","l","o","y","-","S","e","r","v","i","c","e">>)
       /\ invInput = <<"/","s","k","i","l","l"," ","D","e","p","l","o","y"," ","a","r","g","s"," ","h","e","r","e">> =>
              ~(invResult.hit /\ DeployServiceCommand(invResult.command))

\* `/skill Deploy-Service args here` resolved against a list of two commands
\* that holds the command of "Deploy Service"
C11_Witness ==
    /\ invPc = "done"
    /\ invInput = <<"/","s","k","i","l","l"," ","D","e","p","l","o","y","-","S","e","r","v","i","c","e"," ","a","r","g","s"," ","h","e","r","e">>
    /\ Len(invCommands) = 2
    /\ invResult.hit
    /\ DeployServiceCommand(invResult.command)

\* C13: for `/<token> <rest>` with a token other than the dispatch keyword
\* the result is the first command whose name equals the token, letter case
\* ignored, with the trimmed rest as optional arguments, and a miss when no
\* command name equals the token.
C13_DirectInvocation ==
    ( /\ invPc = "done"
      /\ invAfterSlash.some
      /\ firstWord(invAfterSlash.val) # <<>>
      /\ toLowerCase(firstWord(invAfterSlash.val)) # DispatchKeyword )
    => LET token == firstWord(invAfterSlash.val)
           rest  == afterFirstWord(invAfterSlash.val)
           named == {i \in 1..Len(invCommands) :
                        toLowerCase(invCommands[i].name) = toLowerCase(token)}
       IN  IF named = {} THEN invResult = Miss
           ELSE invResult = Hit(invCommands[first(named)], argsOf(rest))

\* a miss although the token is the name of a skill of the list and equals a
\* command name once normalized
C13_Witness ==
    /\ invPc = "done"
    /\ invAfterSlash.some
    /\ toLowerCase(firstWord(invAfterSlash.val)) # DispatchKeyword
    /\ \E i \in 1..Len(invCommands) :
           /\ invCommands[i].skillName = firstWord(invAfterSlash.val)
           /\ lookupForm(invCommands[i].name) = lookupForm(firstWord(invAfterSlash.val))
    /\ afterFirstWord(invAfterSlash.val) # <<>>
    /\ invResult = Miss

\* C20: for `/skill <target> <rest>` the result is the first command of the
\* list that passes one of the four tests on the target, with the trimmed
\* rest as optional arguments, and a miss when no command passes or the
\* target is missing.
C20_KeywordInvocation ==
    ( /\ invPc = "done"
      /\ invAfterSlash.some
      /\ toLowerCase(firstWord(invAfterSlash.val)) = DispatchKeyword )
    => LET remainder == afterFirstWord(invAfterSlash.val)
           target    == firstWord(remainder)
           passing   == {i \in 1..Len(invCommands) : passesTest(invCommands[i], target)}
       IN  IF target = <<>> \/ passing = {} THEN invResult = Miss
           ELSE invResult = Hit(invCommands[first(passing)],
                                argsOf(afterFirstWord(remainder)))

\* a target that two commands pass, the second by its skill name only,
\* resolved to the first with arguments
C20_Witness ==
    /\ invPc = "done"
    /\ invAfterSlash.some
    /\ toLowerCase(firstWord(invAfterSlash.val)) = DispatchKeyword
    /\ Len(invCommands) = 2
    /\ LET target == firstWord(afterFirstWord(invAfterSlash.val))
       IN  /\ passesTest(invCommands[1], target)
           /\ passesTest(invCommands[2], target)
           /\ toLowerCase(invCommands[2].name) # toLowerCase(target)
    /\ invResult.hit
    /\ invResult.command = invCommands[1]
    /\ invResult.args.some

\* C21: with a command named "skill" in the list and an input whose first
\* token is the dispatch keyword in any letter case, the result never comes
\* from a comparison of that token with the command names: without a target
\* it is a miss, a hit is a command that passes a keyword test on the target,
\* with the arguments that follow the target, and it is a miss when no
\* command passes a test on the target.
C21_KeywordShadowsCommand ==
    ( /\ invPc = "done"
      /\ invAfterSlash.some
      /\ toLowerCase(firstWord(invAfterSlash.val)) = DispatchKeyword
      /\ \E i \in 1..Len(invCommands) : invCommands[i].name = COMMAND_FALLBACK )
    => LET remainder == afterFirstWord(invAfterSlash.val)
           target    == firstWord(remainder)
       IN  /\ remainder = <<>> => invResult = Miss
           /\ invResult.hit =>
                  /\ passesTest(invResult.command, target)
                  /\ invResult.args = argsOf(afterFirstWord(remainder))
           /\ (\A i \in 1..Len(invCommands) : ~passesTest(invCommands[i], target))
                  => invResult = Miss

\* `/SKILL` alone is a miss although a command of the list is named "skill"
C21_Witness ==
    /\ invPc = "done"
    /\ invInput = <<"/","S","K","I","L","L">>
    /\ \E i \in 1..Len(invCommands) :
           invCommands[i].name = COMMAND_FALLBACK /\ invCommands[i].skillName = <<"!","!">>
    /\ invResult = Miss

(***************************************************************************)
(* mergeToolPolicies applied to one pair of policies                       *)
(***************************************************************************)
nonEmptyThenTrimmed(list) ==
    LET kept == SelectSeq(list, LAMBDA v : v # <<>>)
    IN  [i \in 1..Len(kept) |-> trim(kept[i])]

\* [...].map((v) => v.trim()).filter(Boolean)
trimmedNonEmpty(list) ==
    SelectSeq([i \in 1..Len(list) |-> trim(list[i])], LAMBDA v : v # <<>>)

\* Array.from(new Set(list)): the first occurrence of every value, in order
arrayFromSet(list) ==
    LET kept == SelectSeq(indices(list), LAMBDA i : \A j \in 1..(i - 1) : list[j] # list[i])
    IN  [k \in 1..Len(kept) |-> list[kept[k]]]

mergeToolPolicies(base, extra) ==
    IF ~base.defined /\ ~extra.defined THEN NoPolicy
    ELSE LET allow == trimmedNonEmpty(OrEmpty(base.allow) \o OrEmpty(extra.allow))
             deny  == trimmedNonEmpty(OrEmpty(base.deny) \o OrEmpty(extra.deny))
         IN  Policy(IF Len(allow) > 0 THEN Some(arrayFromSet(allow)) ELSE Undefined,
                    IF Len(deny) > 0 THEN Some(arrayFromSet(deny)) ELSE Undefined)

\* the number of patterns of a policy to merge, allow and deny lists together
MaxMergePatterns == 2

\* " exec", "read", "  "
MergePatternPool ==
    { <<" ","e","x","e","c">>, <<"r","e","a","d">>, <<" "," ">> }

MergeLists(n) ==
    {Undefined} \cup {Some(l) : l \in SeqsUpTo(MergePatternPool, n)}

MergeInputs ==
    {NoPolicy}
    \cup UNION {{Policy(a, d) : d \in MergeLists(MaxMergePatterns - Len(OrEmpty(a)))} :
                   a \in MergeLists(MaxMergePatterns)}

MergeInit ==
    /\ mpBase \in MergeInputs
    /\ mpExtra \in MergeInputs
    /\ mpResult = NoPolicy
    /\ mpPc = "call"
    /\ tpOff /\ sanOff /\ synOff /\ mgrOff
    /\ invOff /\ prOff /\ plOff

CallMergeToolPolicies ==
    /\ mpPc = "call"
    /\ mpResult' = mergeToolPolicies(mpBase, mpExtra)
    /\ mpPc' = "done"
    /\ UNCHANGED <<mpBase, mpExtra>>
    /\ UNCHANGED <<tpVars, sanVars, synVars, mgrVars, callVars, invVars, prVars, plVars>>

MergeNext ==
    CallMergeToolPolicies

SpecMerge ==
    MergeInit /\ [][MergeNext]_vars

\* the values of a list
valuesOf(list) ==
    {list[i] : i \in 1..Len(list)}

\* the list without its empty and white-space-only strings, the others
\* trimmed, a value that occurred before dropped
RECURSIVE cleanList(_)
cleanList(list) ==
    IF list = <<>> THEN <<>>
    ELSE LET front == cleanList(SubSeq(list, 1, Len(list) - 1))
             v     == trim(list[Len(list)])
         IN  IF v = <<>> \/ v \in valuesOf(front) THEN front ELSE Append(front, v)

\* C19: the merge is "no restriction" exactly when both policies are
\* absent; otherwise its allow list is the cleaned concatenation of
\* base.allow and extra.allow and its deny list that of base.deny and
\* extra.deny, neither depending on the other two lists.
C19_MergeLists ==
    mpPc = "done" =>
        /\ mpResult.defined <=> (mpBase.defined \/ mpExtra.defined)
        /\ mpResult.defined =>
               /\ OrEmpty(mpResult.allow)
                      = cleanList(OrEmpty(mpBase.allow) \o OrEmpty(mpExtra.allow))
               /\ OrEmpty(mpResult.deny)
                      = cleanList(OrEmpty(mpBase.deny) \o OrEmpty(mpExtra.deny))

\* a merge that trims, drops a blank entry and a repeated one, and keeps
\* base before extra
C19_Witness ==
    /\ mpPc = "done"
    /\ mpBase.defined /\ mpExtra.defined
    /\ mpBase.allow = Some(<<<<"r","e","a","d">>, <<" "," ">>>>)
    /\ mpExtra.allow = Some(<<<<" ","e","x","e","c">>, <<"r","e","a","d">>>>)
    /\ mpResult.allow = Some(<<<<"r","e","a","d">>, <<"e","x","e","c">>>>)
    /\ ~mpResult.deny.some

(***************************************************************************)
(* Prompt rendering (skill-primitives.ts, SkillManager.buildSkillsPrompt)  *)
(***************************************************************************)
XML_ESCAPE ==
    [ch \in {"&", "<", ">", "\"", "'"} |->
        CASE ch = "&"  -> <<"&","a","m","p",";">>
          [] ch = "<"  -> <<"&","l","t",";">>
          [] ch = ">"  -> <<"&","g","t",";">>
          [] ch = "\"" -> <<"&","q","u","o","t",";">>
          [] ch = "'"  -> <<"&","a","p","o","s",";">>]

escapeXmlKeepAmpersand(str) ==
    concatRange([i \in 1..Len(str) |->
                    IF str[i] \in DOMAIN XML_ESCAPE /\ str[i] # "&"
                    THEN XML_ESCAPE[str[i]] ELSE <<str[i]>>],
                1, Len(str))

\* str.replace(/[&<>"']/g, (ch) => XML_ESCAPE[ch] ?? ch)
escapeXml(str) ==
    concatRange([i \in 1..Len(str) |->
                    IF str[i] \in DOMAIN XML_ESCAPE THEN XML_ESCAPE[str[i]] ELSE <<str[i]>>],
                1, Len(str))

\* the four lines that open the prompt
PromptHeader ==
    << <<"\n","\n","T","h","e"," ","f","o","l","l","o","w","i","n","g"," ","s","k","i","l","l","s"," ","p","r","o","v","i","d","e"," ","s","p","e","c","i","a","l","i","z","e","d"," ","i","n","s","t","r","u","c","t","i","o","n","s"," ","f","o","r"," ","s","p","e","c","i","f","i","c"," ","t","a","s","k","s",".">>,
       <<"U","s","e"," ","t","h","e"," ","r","e","a","d"," ","t","o","o","l"," ","t","o"," ","l","o","a","d"," ","a"," ","s","k","i","l","l","'","s"," ","f","i","l","e"," ","w","h","e","n"," ","t","h","e"," ","t","a","s","k"," ","m","a","t","c","h","e","s"," ","i","t","s"," ","d","e","s","c","r","i","p","t","i","o","n",".">>,
       <<>>,
       <<"<","a","v","a","i","l","a","b","l","e","_","s","k","i","l","l","s",">">> >>

\* the five lines of one skill
promptRecord(s) ==
    << <<" "," ","<","s","k","i","l","l",">">>,
       <<" "," "," "," ","<","n","a","m","e",">">> \o escapeXml(s.name) \o <<"<","/","n","a","m","e",">">>,
       <<" "," "," "," ","<","d","e","s","c","r","i","p","t","i","o","n",">">> \o escapeXml(s.description) \o <<"<","/","d","e","s","c","r","i","p","t","i","o","n",">">>,
       <<" "," "," "," ","<","l","o","c","a","t","i","o","n",">">> \o escapeXml(s.filePath) \o <<"<","/","l","o","c","a","t","i","o","n",">">>,
       <<" "," ","<","/","s","k","i","l","l",">">> >>

formatSkillsForPromptNoFilter(skills) ==
    LET visible == skills
        lines   == PromptHeader
                   \o concatRange([i \in 1..Len(visible) |-> promptRecord(visible[i])],
                                  1, Len(visible))
                   \o << <<"<","/","a","v","a","i","l","a","b","l","e","_","s","k","i","l","l","s",">">> >>
    IN  IF Len(visible) = 0 THEN <<>> ELSE join(lines, <<"\n">>)

formatSkillsForPrompt(skills) ==
    LET visible == SelectSeq(skills, LAMBDA s : ~s.disableModelInvocation)
        lines   == PromptHeader
                   \o concatRange([i \in 1..Len(visible) |-> promptRecord(visible[i])],
                                  1, Len(visible))
                   \o << <<"<","/","a","v","a","i","l","a","b","l","e","_","s","k","i","l","l","s",">">> >>
    IN  IF Len(visible) = 0 THEN <<>> ELSE join(lines, <<"\n">>)

\* this.entries.filter(...).map((e) => e.skill), then formatSkillsForPrompt
buildSkillsPrompt(skillEntries) ==
    LET kept   == SelectSeq(skillEntries, LAMBDA e : ~e.invocation.disableModelInvocation)
        skills == [i \in 1..Len(kept) |-> kept[i].skill]
    IN  formatSkillsForPrompt(skills)

(***************************************************************************)
(* The prompt of one list of entries                                       *)
(***************************************************************************)
MaxPromptEntries == 2

\* an entry whose Skill record and whose invocation policy carry their own
\* value of disableModelInvocation (they differ when the second read of the
\* file fails or finds another content)
mkPromptEntry(name, description, filePath, skillDmi, policyDmi) ==
    LET frontmatter == IF policyDmi
                       THEN Frontmatter(Some(name), Some(description), Some(<<"t","r","u","e">>), Undefined)
                       ELSE EmptyFrontmatter
    IN  [skill       |-> [name |-> name, description |-> description,
                          filePath |-> filePath, baseDir |-> <<"/","w","/","s","k","i","l","l","s">>,
                          source |-> "workspace", disableModelInvocation |-> skillDmi],
         frontmatter |-> frontmatter,
         invocation  |-> resolveInvocationPolicy(frontmatter)]

\* name, description and location of the skills to render:
\*   pdf       Read <PDF> & "forms"     /w/skills/pdf/SKILL.md
\*   a'b       x &amp; y                /w/s&k/SKILL.md
\*   </skill>  d\n  <skill>             /w/skills/<name>/SKILL.md
\*   deploy    d                        /m/deploy/SKILL.md
PromptTexts ==
    { <<<<"p","d","f">>, <<"R","e","a","d"," ","<","P","D","F",">"," ","&"," ","\"","f","o","r","m","s","\"">>, <<"/","w","/","s","k","i","l","l","s","/","p","d","f","/","S","K","I","L","L",".","m","d">>>>,
      <<<<"a","'","b">>, <<"x"," ","&","a","m","p",";"," ","y">>, <<"/","w","/","s","&","k","/","S","K","I","L","L",".","m","d">>>>,
      <<<<"<","/","s","k","i","l","l",">">>, <<"d","\n"," "," ","<","s","k","i","l","l",">">>, <<"/","w","/","s","k","i","l","l","s","/","<","n","a","m","e",">","/","S","K","I","L","L",".","m","d">>>>,
      <<<<"d","e","p","l","o","y">>, <<"d">>, <<"/","m","/","d","e","p","l","o","y","/","S","K","I","L","L",".","m","d">>>> }

PromptEntryPool ==
    {mkPromptEntry(t[1], t[2], t[3], f[1], f[2]) :
        t \in PromptTexts, f \in {<<FALSE, FALSE>>, <<TRUE, FALSE>>, <<FALSE, TRUE>>}}

PromptInit ==
    /\ prEntries \in SeqsUpTo(PromptEntryPool, MaxPromptEntries)
    /\ prPrompt = <<>>
    /\ prPc = "call"
    /\ tpOff /\ sanOff /\ synOff /\ mgrOff
    /\ invOff /\ mpOff /\ plOff

\* formatSkillsForPrompt called with the Skill records of the entries
CallFormatSkillsForPrompt ==
    /\ prPc = "call"
    /\ prPrompt' = formatSkillsForPrompt([i \in 1..Len(prEntries) |-> prEntries[i].skill])
    /\ prPc' = "formatted"
    /\ UNCHANGED prEntries
    /\ UNCHANGED <<tpVars, sanVars, synVars, mgrVars, callVars, invVars, mpVars, plVars>>

\* SkillManager.buildSkillsPrompt on a manager that holds the entries
CallBuildSkillsPrompt ==
    /\ prPc = "call"
    /\ prPrompt' = buildSkillsPrompt(prEntries)
    /\ prPc' = "built"
    /\ UNCHANGED prEntries
    /\ UNCHANGED <<tpVars, sanVars, synVars, mgrVars, callVars, invVars, mpVars, plVars>>

PromptNext ==
    \/ CallFormatSkillsForPrompt
    \/ CallBuildSkillsPrompt

SpecPrompt ==
    PromptInit /\ [][PromptNext]_vars

(***************************************************************************)
(* Properties of the prompt                                                *)
(***************************************************************************)
\* the positions of s where pat occurs, in order
occurrences(s, pat) ==
    SelectSeq(indices(s),
              LAMBDA i : i + Len(pat) - 1 <= Len(s) /\ SubSeq(s, i, i + Len(pat) - 1) = pat)

\* what a reader of the prompt finds between each `<tag>` and the next
\* `</tag>`, in order
fieldsOf(s, tag) ==
    LET open   == <<"<">> \o tag \o <<">">>
        close  == <<"<", "/">> \o tag \o <<">">>
        opens  == occurrences(s, open)
        closes == occurrences(s, close)
    IN  [k \in 1..Len(opens) |->
            LET after == {closes[j] : j \in {n \in 1..Len(closes) : closes[n] > opens[k]}}
            IN  SubSeq(s, opens[k] + Len(open),
                       IF after = {} THEN Len(s) ELSE first(after) - 1)]

\* the five reserved characters and their entities
Entities ==
    { <<"&", <<"&","a","m","p",";">>>>, <<"<", <<"&","l","t",";">>>>, <<">", <<"&","g","t",";">>>>,
      <<"\"", <<"&","q","u","o","t",";">>>>, <<"'", <<"&","a","p","o","s",";">>>> }

\* no raw `<`, `>`, `"`, `'`, and every `&` starts an entity
wellEscaped(f) ==
    \A i \in 1..Len(f) :
        /\ f[i] \notin {"<", ">", "\"", "'"}
        /\ f[i] = "&" => \E e \in Entities : startsWith(SubSeq(f, i, Len(f)), e[2])

\* every entity read back as its character, once
RECURSIVE unescapeXml(_)
unescapeXml(f) ==
    IF f = <<>> THEN <<>>
    ELSE IF \E e \in Entities : startsWith(f, e[2])
         THEN LET e == CHOOSE x \in Entities : startsWith(f, x[2])
              IN  <<e[1]>> \o unescapeXml(SubSeq(f, Len(e[2]) + 1, Len(f)))
         ELSE <<Head(f)>> \o unescapeXml(Tail(f))

prDone ==
    prPc \in {"formatted", "built"}

\* the skills the prompt has to show: those not hidden by the Skill record
\* and, through the manager, not hidden by the invocation policy
prVisible ==
    LET kept == SelectSeq(prEntries,
                          LAMBDA e : /\ ~e.skill.disableModelInvocation
                                     /\ prPc = "built" => ~e.invocation.disableModelInvocation)
    IN  [i \in 1..Len(kept) |-> kept[i].skill]

TagName == <<"n","a","m","e">>
TagDescription == <<"d","e","s","c","r","i","p","t","i","o","n">>
TagLocation == <<"l","o","c","a","t","i","o","n">>

\* C14: the prompt holds one record per skill that is not hidden, in list
\* order, none for a hidden skill, and is the empty string when every skill
\* is hidden.
C14_HiddenSkillsOmitted ==
    prDone =>
        /\ prVisible = <<>> <=> prPrompt = <<>>
        /\ Len(occurrences(prPrompt, <<"<","s","k","i","l","l",">">>)) = Len(prVisible)
        /\ Len(fieldsOf(prPrompt, TagName)) = Len(prVisible)
        /\ Len(fieldsOf(prPrompt, TagLocation)) = Len(prVisible)
        /\ \A k \in 1..Len(prVisible) :
               /\ k <= Len(fieldsOf(prPrompt, TagName))
               /\ unescapeXml(fieldsOf(prPrompt, TagName)[k]) = prVisible[k].name
               /\ k <= Len(fieldsOf(prPrompt, TagLocation))
               /\ unescapeXml(fieldsOf(prPrompt, TagLocation)[k]) = prVisible[k].filePath
        /\ prPrompt # <<>> =>
               /\ Len(occurrences(prPrompt, <<"<","a","v","a","i","l","a","b","l","e","_","s","k","i","l","l","s",">">>)) = 1
               /\ endsWith(prPrompt, <<"<","/","a","v","a","i","l","a","b","l","e","_","s","k","i","l","l","s",">">>)

\* the manager renders two entries, the first hidden by its policy only
C14_Witness ==
    /\ prPc = "built"
    /\ Len(prEntries) = 2
    /\ prEntries[1].invocation.disableModelInvocation
    /\ ~prEntries[1].skill.disableModelInvocation
    /\ Len(prVisible) = 1
    /\ Len(fieldsOf(prPrompt, TagName)) = 1

\* C15: the name, description and location fields of every record hold no
\* raw `<`, `>`, `"`, `'`, every `&` in them starts one of the five
\* entities, each field reads back as the text of the skill (every reserved
\* character replaced once), and the prompt holds no `<` beyond its own tags.
C15_FieldsEscaped ==
    prDone =>
        /\ \A tag \in {TagName, TagDescription, TagLocation} :
               /\ Len(fieldsOf(prPrompt, tag)) = Len(prVisible)
               /\ \A k \in 1..Len(fieldsOf(prPrompt, tag)) :
                      wellEscaped(fieldsOf(prPrompt, tag)[k])
        /\ \A k \in 1..Len(prVisible) :
               /\ k <= Len(fieldsOf(prPrompt, TagDescription))
               /\ unescapeXml(fieldsOf(prPrompt, TagDescription)[k]) = prVisible[k].description
               /\ k <= Len(fieldsOf(prPrompt, TagName))
               /\ unescapeXml(fieldsOf(prPrompt, TagName)[k]) = prVisible[k].name
               /\ k <= Len(fieldsOf(prPrompt, TagLocation))
               /\ unescapeXml(fieldsOf(prPrompt, TagLocation)[k]) = prVisible[k].filePath
        /\ prPrompt # <<>> =>
               Len(occurrences(prPrompt, <<"<">>)) = 2 + 8 * Len(prVisible)

\* two records whose texts hold a closing tag, an entity and an ampersand
C15_Witness ==
    /\ prPc = "formatted"
    /\ Len(prVisible) = 2
    /\ prVisible[1].name = <<"<","/","s","k","i","l","l",">">>
    /\ prVisible[2].description = <<"x"," ","&","a","m","p",";"," ","y">>
    /\ Len(occurrences(prPrompt, <<"&","a","m","p",";","a","m","p",";">>)) = 1

(***************************************************************************)
(* One load, by a single caller, of a manager constructed on the           *)
(* directories ManagedDir and WorkspaceDir of a chosen file system         *)
(***************************************************************************)
\* the number of paths whose read fails during the scans
MaxFailing == 2

\* two skills whose names differ and whose command names collide:
\*   /m/deploy/SKILL.md  name: Deploy Service, description: Ship it
\*   /w/skills/ds.md     name: deploy_service, description: Ship again
DeployDisk ==
    [dirs  |-> (<<"/","m">> :> << <<"d","e","p","l","o","y">> >>)
               @@ (<<"/","m","/","d","e","p","l","o","y">> :> << SKILL_MD >>)
               @@ (<<"/","w","/","s","k","i","l","l","s">> :> << <<"d","s",".","m","d">> >>),
     files |-> (<<"/","m","/","d","e","p","l","o","y","/","S","K","I","L","L",".","m","d">> :>
                    skillFile(<< <<"n","a","m","e",":"," ","D","e","p","l","o","y"," ","S","e","r","v","i","c","e">>, <<"d","e","s","c","r","i","p","t","i","o","n",":"," ","S","h","i","p"," ","i","t">> >>))
               @@ (<<"/","w","/","s","k","i","l","l","s","/","d","s",".","m","d">> :>
                       skillFile(<< <<"n","a","m","e",":"," ","d","e","p","l","o","y","_","s","e","r","v","i","c","e">>, <<"d","e","s","c","r","i","p","t","i","o","n",":"," ","S","h","i","p"," ","a","g","a","i","n">> >>)),
     blank |-> {}]

\* a managed tree with hidden entries, a dependency directory, nested skill
\* directories and files that are no candidates; no workspace directory:
\*   /m/.x.md                  name: hidden, description: h
\*   /m/node_modules/SKILL.md  name: dep, description: p
\*   /m/a.md                   description: first
\*   /m/tool/SKILL.md          description: d, disable-model-invocation: yes,
\*                             user-invocable: false
\*   /m/tool/Sub/SKILL.md      name: Sub Skill, description: s
\*   /m/tool/notes.md          name: notes, description: n
\*   /m/b.txt                  name: text, description: t
TreeDisk ==
    [dirs  |-> (<<"/","m">> :> << <<".","x",".","m","d">>, <<"n","o","d","e","_","m","o","d","u","l","e","s">>, <<"a",".","m","d">>, <<"t","o","o","l">>, <<"b",".","t","x","t">> >>)
               @@ (<<"/","m","/","n","o","d","e","_","m","o","d","u","l","e","s">> :> << SKILL_MD >>)
               @@ (<<"/","m","/","t","o","o","l">> :> << SKILL_MD, <<"S","u","b">>, <<"n","o","t","e","s",".","m","d">> >>)
               @@ (<<"/","m","/","t","o","o","l","/","S","u","b">> :> << SKILL_MD >>),
     files |-> (<<"/","m","/",".","x",".","m","d">> :> skillFile(<< <<"n","a","m","e",":"," ","h","i","d","d","e","n">>, <<"d","e","s","c","r","i","p","t","i","o","n",":"," ","h">> >>))
               @@ (<<"/","m","/","n","o","d","e","_","m","o","d","u","l","e","s","/","S","K","I","L","L",".","m","d">> :>
                       skillFile(<< <<"n","a","m","e",":"," ","d","e","p">>, <<"d","e","s","c","r","i","p","t","i","o","n",":"," ","p">> >>))
               @@ (<<"/","m","/","a",".","m","d">> :> skillFile(<< <<"d","e","s","c","r","i","p","t","i","o","n",":"," ","f","i","r","s","t">> >>))
               @@ (<<"/","m","/","t","o","o","l","/","S","K","I","L","L",".","m","d">> :>
                       skillFile(<< <<"d","e","s","c","r","i","p","t","i","o","n",":"," ","d">>, <<"d","i","s","a","b","l","e","-","m","o","d","e","l","-","i","n","v","o","c","a","t","i","o","n",":"," ","y","e","s">>,
                                    <<"u","s","e","r","-","i","n","v","o","c","a","b","l","e",":"," ","f","a","l","s","e">> >>))
               @@ (<<"/","m","/","t","o","o","l","/","S","u","b","/","S","K","I","L","L",".","m","d">> :>
                       skillFile(<< <<"n","a","m","e",":"," ","S","u","b"," ","S","k","i","l","l">>, <<"d","e","s","c","r","i","p","t","i","o","n",":"," ","s">> >>))
               @@ (<<"/","m","/","t","o","o","l","/","n","o","t","e","s",".","m","d">> :> skillFile(<< <<"n","a","m","e",":"," ","n","o","t","e","s">>, <<"d","e","s","c","r","i","p","t","i","o","n",":"," ","n">> >>))
               @@ (<<"/","m","/","b",".","t","x","t">> :> skillFile(<< <<"n","a","m","e",":"," ","t","e","x","t">>, <<"d","e","s","c","r","i","p","t","i","o","n",":"," ","t">> >>)),
     blank |-> {}]

\* workspace files with and without a description; no managed directory:
\*   /w/skills/nodesc.md  name: a
\*   /w/skills/blank.md   name: b, description: followed by three spaces
\*   /w/skills/quoted.md  name: c, description: " "
\*   /w/skills/empty.md   name: d, description: ''
\*   /w/skills/nohdr.md   no header block
\*   /w/skills/ok.md      description: 'x'
HeaderDisk ==
    [dirs  |-> (<<"/","w","/","s","k","i","l","l","s">> :> << <<"n","o","d","e","s","c",".","m","d">>, <<"b","l","a","n","k",".","m","d">>, <<"q","u","o","t","e","d",".","m","d">>, <<"e","m","p","t","y",".","m","d">>,
                                   <<"n","o","h","d","r",".","m","d">>, <<"o","k",".","m","d">> >>),
     files |-> (<<"/","w","/","s","k","i","l","l","s","/","n","o","d","e","s","c",".","m","d">> :> skillFile(<< <<"n","a","m","e",":"," ","a">> >>))
               @@ (<<"/","w","/","s","k","i","l","l","s","/","b","l","a","n","k",".","m","d">> :> skillFile(<< <<"n","a","m","e",":"," ","b">>, <<"d","e","s","c","r","i","p","t","i","o","n",":"," "," "," ">> >>))
               @@ (<<"/","w","/","s","k","i","l","l","s","/","q","u","o","t","e","d",".","m","d">> :>
                       skillFile(<< <<"n","a","m","e",":"," ","c">>, <<"d","e","s","c","r","i","p","t","i","o","n",":"," ","\""," ","\"">> >>))
               @@ (<<"/","w","/","s","k","i","l","l","s","/","e","m","p","t","y",".","m","d">> :> skillFile(<< <<"n","a","m","e",":"," ","d">>, <<"d","e","s","c","r","i","p","t","i","o","n",":"," ","'","'">> >>))
               @@ (<<"/","w","/","s","k","i","l","l","s","/","n","o","h","d","r",".","m","d">> :> <<"d","e","s","c","r","i","p","t","i","o","n",":"," ","n","o","n","e","\n">>)
               @@ (<<"/","w","/","s","k","i","l","l","s","/","o","k",".","m","d">> :> skillFile(<< <<"d","e","s","c","r","i","p","t","i","o","n",":"," ","'","x","'">> >>)),
     \* the files whose header has no description, or an empty or blank one
     blank |-> { <<"/","w","/","s","k","i","l","l","s","/","n","o","d","e","s","c",".","m","d">>, <<"/","w","/","s","k","i","l","l","s","/","b","l","a","n","k",".","m","d">>, <<"/","w","/","s","k","i","l","l","s","/","q","u","o","t","e","d",".","m","d">>,
                 <<"/","w","/","s","k","i","l","l","s","/","e","m","p","t","y",".","m","d">>, <<"/","w","/","s","k","i","l","l","s","/","n","o","h","d","r",".","m","d">> }]

\* a workspace skill that overrides the first of two managed skills whose
\* command names collide:
\*   /m/a.md         name: Deploy Service, description: old
\*   /m/b.md         name: deploy_service, description: other
\*   /w/skills/c.md  name: Deploy Service, description: new
OverrideDisk ==
    [dirs  |-> (<<"/","m">> :> << <<"a",".","m","d">>, <<"b",".","m","d">> >>)
               @@ (<<"/","w","/","s","k","i","l","l","s">> :> << <<"c",".","m","d">> >>),
     files |-> (<<"/","m","/","a",".","m","d">> :>
                    skillFile(<< <<"n","a","m","e",":"," ","D","e","p","l","o","y"," ","S","e","r","v","i","c","e">>, <<"d","e","s","c","r","i","p","t","i","o","n",":"," ","o","l","d">> >>))
               @@ (<<"/","m","/","b",".","m","d">> :>
                       skillFile(<< <<"n","a","m","e",":"," ","d","e","p","l","o","y","_","s","e","r","v","i","c","e">>, <<"d","e","s","c","r","i","p","t","i","o","n",":"," ","o","t","h","e","r">> >>))
               @@ (<<"/","w","/","s","k","i","l","l","s","/","c",".","m","d">> :>
                       skillFile(<< <<"n","a","m","e",":"," ","D","e","p","l","o","y"," ","S","e","r","v","i","c","e">>, <<"d","e","s","c","r","i","p","t","i","o","n",":"," ","n","e","w">> >>)),
     blank |-> {}]

\* files of the root of the file system, and of <workspace>/skills, with and
\* without a name:
\*   /One.md         description: first
\*   /two.md         description: second
\*   /w/skills/a.md  description: wa
\*   /w/skills/b.md  description: wb
\*   /w/skills/c.md  name: Named, description: wc
RootDisk ==
    [dirs  |-> (<<"/">> :> << <<"O","n","e",".","m","d">>, <<"t","w","o",".","m","d">>, <<"w">> >>)
               @@ (<<"/","w">> :> << <<"s","k","i","l","l","s">> >>)
               @@ (<<"/","w","/","s","k","i","l","l","s">> :> << <<"a",".","m","d">>, <<"b",".","m","d">>, <<"c",".","m","d">> >>),
     files |-> (<<"/","O","n","e",".","m","d">> :> skillFile(<< <<"d","e","s","c","r","i","p","t","i","o","n",":"," ","f","i","r","s","t">> >>))
               @@ (<<"/","t","w","o",".","m","d">> :> skillFile(<< <<"d","e","s","c","r","i","p","t","i","o","n",":"," ","s","e","c","o","n","d">> >>))
               @@ (<<"/","w","/","s","k","i","l","l","s","/","a",".","m","d">> :> skillFile(<< <<"d","e","s","c","r","i","p","t","i","o","n",":"," ","w","a">> >>))
               @@ (<<"/","w","/","s","k","i","l","l","s","/","b",".","m","d">> :> skillFile(<< <<"d","e","s","c","r","i","p","t","i","o","n",":"," ","w","b">> >>))
               @@ (<<"/","w","/","s","k","i","l","l","s","/","c",".","m","d">> :>
                       skillFile(<< <<"n","a","m","e",":"," ","N","a","m","e","d">>, <<"d","e","s","c","r","i","p","t","i","o","n",":"," ","w","c">> >>)),
     blank |-> {}]

PipelineDisks ==
    {DeployDisk, TreeDisk, HeaderDisk, OverrideDisk, RootDisk}

\* the managed directories a manager is constructed with: /m and the root of
\* the file system
ManagedDirs ==
    {ManagedDir, <<"/">>}

\* the paths a read can fail on: those of the disk and the roots
failable(disk) ==
    DOMAIN disk.dirs \cup DOMAIN disk.files \cup ManagedDirs \cup {workspaceSkillsDir}

PipelineInit ==
    /\ plDisk \in PipelineDisks
    /\ plManagedDir \in ManagedDirs
    /\ plFailing \in {F \in SUBSET failable(plDisk) : Cardinality(F) <= MaxFailing}
    /\ plReread = {}
    /\ plManaged = <<>> /\ plWorkspace = <<>> /\ plMerged = <<>>
    /\ plEntries = <<>> /\ plCommands = <<>>
    /\ plLoaded = FALSE
    /\ plPc = "idle"
    /\ tpOff /\ sanOff /\ synOff /\ mgrOff
    /\ invOff /\ prOff /\ mpOff

plOutside ==
    <<tpVars, sanVars, synVars, mgrVars, callVars, invVars, prVars, mpVars>>

\* loadAll is called: it returns at once on a loaded manager
PlCall ==
    /\ plPc = "idle"
    /\ plPc' = IF plLoaded THEN "returned" ELSE "scanManaged"
    /\ UNCHANGED <<plDisk, plManagedDir, plFailing, plReread, plManaged, plWorkspace, plMerged, plEntries,
                   plCommands, plLoaded>>
    /\ UNCHANGED plOutside

\* loadSkillEntries scans the managed directory and merges its skills
PlScanManaged ==
    /\ plPc = "scanManaged"
    /\ \E found \in {loadSkillsFromDir(plDisk, plFailing, plManagedDir, "managed")} :
           IF found.threw
           THEN /\ plPc' = "rejected"
                /\ UNCHANGED <<plManaged, plMerged>>
           ELSE /\ plManaged' = found.val
                /\ plMerged' = mergeInto(<<>>, found.val)
                /\ plPc' = "scanWorkspace"
    /\ UNCHANGED <<plDisk, plManagedDir, plFailing, plReread, plWorkspace, plEntries, plCommands, plLoaded>>
    /\ UNCHANGED plOutside

\* loadSkillEntries scans <workspace>/skills and merges its skills
PlScanWorkspace ==
    /\ plPc = "scanWorkspace"
    /\ \E found \in {loadSkillsFromDir(plDisk, plFailing, workspaceSkillsDir, "workspace")} :
           IF found.threw
           THEN /\ plPc' = "rejected"
                /\ UNCHANGED <<plWorkspace, plMerged>>
           ELSE /\ plWorkspace' = found.val
                /\ plMerged' = mergeInto(plMerged, found.val)
                /\ plPc' = "enrich"
    /\ UNCHANGED <<plDisk, plManagedDir, plFailing, plReread, plManaged, plEntries, plCommands, plLoaded>>
    /\ UNCHANGED plOutside

\* loadSkillEntries reads the files of the merged skills again; by then any
\* of them may have become unreadable
PlEnrich ==
    /\ plPc = "enrich"
    /\ \E failing \in SUBSET filePathsOf(plMerged) :
           /\ plReread' = failing
           /\ plEntries' = enrich(plDisk, parsedFiles(plDisk), failing, plMerged)
    /\ plPc' = "store"
    /\ UNCHANGED <<plDisk, plManagedDir, plFailing, plManaged, plWorkspace, plMerged, plCommands, plLoaded>>
    /\ UNCHANGED plOutside

\* loadAll builds the commands and sets loaded
PlStore ==
    /\ plPc = "store"
    /\ plCommands' = buildSkillCommandSpecs(plEntries)
    /\ plLoaded' = TRUE
    /\ plPc' = "returned"
    /\ UNCHANGED <<plDisk, plManagedDir, plFailing, plReread, plManaged, plWorkspace, plMerged, plEntries>>
    /\ UNCHANGED plOutside

\* the caller got its result and may call again
PlReturn ==
    /\ plPc = "returned"
    /\ plPc' = "idle"
    /\ UNCHANGED <<plDisk, plManagedDir, plFailing, plReread, plManaged, plWorkspace, plMerged, plEntries,
                   plCommands, plLoaded>>
    /\ UNCHANGED plOutside

PipelineNext ==
    \/ PlCall
    \/ PlScanManaged
    \/ PlScanWorkspace
    \/ PlEnrich
    \/ PlStore
    \/ PlReturn

SpecPipeline ==
    PipelineInit /\ [][PipelineNext]_vars

(***************************************************************************)
(* Properties of one load                                                  *)
(***************************************************************************)
\* the scan of the managed directory, and of <workspace>/skills, has returned
plManagedDone ==
    plLoaded \/ plPc \in {"scanWorkspace", "enrich", "store", "returned"}

plWorkspaceDone ==
    plLoaded \/ plPc \in {"enrich", "store", "returned"}

plNames(skills) ==
    [i \in 1..Len(skills) |-> skills[i].name]

DeployServiceName ==
    <<"D","e","p","l","o","y"," ","S","e","r","v","i","c","e">>

DeployServiceKey ==
    <<"d","e","p","l","o","y","_","s","e","r","v","i","c","e">>

\* C12: when the managed scan found a skill named "Deploy Service" and the
\* workspace scan one named "deploy_service", the merge holds both, in
\* discovery order, both become entries, and synthesis names their commands
\* deploy_service and deploy_service_2 respectively
C12_BothSurvive ==
    ( /\ plLoaded
      /\ plNames(plManaged) = << DeployServiceName >>
      /\ plNames(plWorkspace) = << DeployServiceKey >> )
    => /\ plNames(plMerged) = << DeployServiceName, DeployServiceKey >>
       /\ [i \in 1..Len(plEntries) |-> plEntries[i].skill] = plMerged
       /\ [i \in 1..Len(plCommands) |-> <<plCommands[i].skillName, plCommands[i].name>>]
              = << <<DeployServiceName, <<"d","e","p","l","o","y","_","s","e","r","v","i","c","e">>>>,
                   <<DeployServiceKey, <<"d","e","p","l","o","y","_","s","e","r","v","i","c","e","_","2">>>> >>

C12_Witness ==
    /\ plLoaded
    /\ plNames(plManaged) = << DeployServiceName >>
    /\ plNames(plWorkspace) = << DeployServiceKey >>
    /\ Len(plCommands) = 2

\* what the file system gives a scan
listable(d) ==
    d \in DOMAIN plDisk.dirs /\ d \notin plFailing

readable(f) ==
    f \in DOMAIN plDisk.files /\ f \notin plFailing

under(p, d) ==
    p # d /\ startsWith(p, IF endsWith(d, <<"/">>) THEN d ELSE d \o <<"/">>)

\* what follows the last `/` of a path
lastPart(p) ==
    LET slashes == {i \in 1..Len(p) : p[i] = "/"}
    IN  SubSeq(p, (CHOOSE i \in slashes : \A j \in slashes : j <= i) + 1, Len(p))

hiddenName(n) ==
    n[1] = "." \/ n = <<"n","o","d","e","_","m","o","d","u","l","e","s">>

\* the directories from root down to the one that holds f
dirsAbove(f, root) ==
    {d \in DOMAIN plDisk.dirs : (d = root \/ under(d, root)) /\ under(f, d)}

holder(f, root) ==
    CHOOSE d \in dirsAbove(f, root) : \A e \in dirsAbove(f, root) : Len(e) <= Len(d)

\* the files a scan of root has to turn into skills: the readable files with a
\* description that are an .md file of root or the SKILL.md of a directory
\* below it, reached through listings that succeed and through no hidden name
expected(root) ==
    {f \in DOMAIN plDisk.files :
        /\ readable(f) /\ f \notin plDisk.blank
        /\ root \in dirsAbove(f, root)
        /\ ~hiddenName(lastPart(f))
        /\ \A d \in dirsAbove(f, root) \ {root} : ~hiddenName(lastPart(d))
        /\ IF holder(f, root) = root
           THEN listable(root) /\ endsWith(f, <<".","m","d">>)
           ELSE /\ lastPart(f) = SKILL_MD
                /\ \A d \in dirsAbove(f, root) \ {holder(f, root)} : listable(d)}

\* the directories below root whose listing fails
unlistable(root) ==
    {d \in DOMAIN plDisk.dirs : under(d, root) /\ d \in plFailing}

\* no rejection, nothing from a root that cannot be listed, every expected
\* file scanned whatever failed beside it
scanSwallows(root, skills) ==
    /\ ~listable(root) => skills = <<>>
    /\ filePathsOf(skills) = expected(root)
    /\ Len(skills) = Cardinality(expected(root))

nothingFrom(root, skills) ==
    \A d \in unlistable(root) : \A i \in 1..Len(skills) : ~under(skills[i].filePath, d)

nothingListedFrom(root, skills) ==
    \A d \in unlistable(root) : \A i \in 1..Len(skills) :
        under(skills[i].filePath, d) => skills[i].filePath = pathJoin(d, SKILL_MD)

\* the stage that follows a stage of a load
nextStage ==
    [scanManaged |-> "scanWorkspace", scanWorkspace |-> "enrich", enrich |-> "store",
     store |-> "returned"]

\* a step of a load leads to its next stage, and the last one to loaded = true
loadAdvances ==
    plPc \in DOMAIN nextStage
    => /\ plPc' = nextStage[plPc]
       /\ plPc' = "returned" => plLoaded'

\* C16 as stated: no read failure rejects loadAll, a root that cannot be
\* listed gives the empty list, a subdirectory that cannot be listed and a file
\* that cannot be read contribute nothing while everything beside them is
\* scanned, and every step of a load leads on to loaded = true
C16_FailuresSwallowed ==
    /\ [](plPc # "rejected")
    /\ [](plManagedDone => /\ scanSwallows(plManagedDir, plManaged)
                           /\ nothingFrom(plManagedDir, plManaged))
    /\ [](plWorkspaceDone => /\ scanSwallows(workspaceSkillsDir, plWorkspace)
                             /\ nothingFrom(workspaceSkillsDir, plWorkspace))
    /\ [][loadAdvances]_vars

\* C16 (amended): as above, but a subdirectory that cannot be listed still
\* contributes its own SKILL.md when that file can be read; it contributes
\* nothing else
C16_ListingFailuresSwallowed ==
    /\ [](plPc # "rejected")
    /\ [](plManagedDone => /\ scanSwallows(plManagedDir, plManaged)
                           /\ nothingListedFrom(plManagedDir, plManaged))
    /\ [](plWorkspaceDone => /\ scanSwallows(workspaceSkillsDir, plWorkspace)
                             /\ nothingListedFrom(workspaceSkillsDir, plWorkspace))
    /\ [][loadAdvances]_vars

\* a load completed although the listing of /m/tool and the read of /m/a.md
\* failed: the skill of /m/tool/SKILL.md is there, that of /m/tool/Sub is not
C16_Witness ==
    /\ plLoaded
    /\ plFailing = { <<"/","m","/","t","o","o","l">>, <<"/","m","/","a",".","m","d">> }
    /\ plNames(plManaged) = << <<"t","o","o","l">> >>
    /\ plReread # {}

\* C17: no scan rejects, no skill of a scan comes from a file whose header has
\* no description or an empty or blank one, and every skill of a scan has a
\* non-empty description
C17_DescriptionRequired ==
    /\ plPc # "rejected"
    /\ \A i \in 1..Len(plManaged) :
           plManaged[i].description # <<>> /\ plManaged[i].filePath \notin plDisk.blank
    /\ \A i \in 1..Len(plWorkspace) :
           plWorkspace[i].description # <<>> /\ plWorkspace[i].filePath \notin plDisk.blank

\* files without a description were read, next to one with a description
C17_Witness ==
    /\ plWorkspaceDone
    /\ Cardinality(plDisk.blank) = 5
    /\ plFailing = {}
    /\ plNames(plWorkspace) = << <<"s","k","i","l","l","s">> >>

\* the second reads are done
plEnriched ==
    plLoaded \/ plPc \in {"store", "returned"}

\* the skills of both scans
plScanned ==
    {plManaged[i] : i \in 1..Len(plManaged)} \cup {plWorkspace[i] : i \in 1..Len(plWorkspace)}

\* C22: every merged skill yields an entry that holds the Skill as the scan
\* made it; when the second read of its file failed, the entry has the empty
\* Frontmatter and the policy userInvocable = true, disableModelInvocation =
\* false.
C22_RereadFailureDegrades ==
    plEnriched =>
        /\ Len(plEntries) = Len(plMerged)
        /\ \A i \in 1..Len(plMerged) :
               /\ plEntries[i].skill = plMerged[i]
               /\ plEntries[i].skill \in plScanned
               /\ plMerged[i].filePath \in plReread =>
                      /\ \A k \in DOMAIN plEntries[i].frontmatter :
                             ~plEntries[i].frontmatter[k].some
                      /\ plEntries[i].invocation.userInvocable
                      /\ ~plEntries[i].invocation.disableModelInvocation

\* the second read of /m/tool/SKILL.md, which declares
\* disable-model-invocation: yes and user-invocable: false, failed: the entry
\* has the default policy and its Skill still disables model invocation,
\* while the entry of a file that was read again has that file's header
C22_Witness ==
    /\ plLoaded
    /\ plReread = { <<"/","m","/","t","o","o","l","/","S","K","I","L","L",".","m","d">> }
    /\ \E i \in 1..Len(plEntries) :
           /\ plEntries[i].skill.filePath = <<"/","m","/","t","o","o","l","/","S","K","I","L","L",".","m","d">>
           /\ plEntries[i].skill.disableModelInvocation
           /\ plEntries[i].invocation.userInvocable
           /\ ~plEntries[i].invocation.disableModelInvocation
    /\ \E i \in 1..Len(plEntries) :
           /\ plEntries[i].skill.filePath = <<"/","m","/","t","o","o","l","/","S","u","b","/","S","K","I","L","L",".","m","d">>
           /\ plEntries[i].frontmatter.name = Some(<<"S","u","b"," ","S","k","i","l","l">>)

\* the names in the order of their discovery: managed, then workspace
plDiscovered ==
    plNames(plManaged) \o plNames(plWorkspace)

\* the place of the first discovery of a name
firstSeen(name) ==
    first({k \in 1..Len(plDiscovered) : plDiscovered[k] = name})

\* the commands before the i-th one that share its sanitized skill name
plEarlierSameBase(i) ==
    {j \in 1..(i - 1) :
        sanitizeCommandName(plCommands[j].skillName)
            = sanitizeCommandName(plCommands[i].skillName)}

\* C24: the merged skills, one per discovered name, stand in the order in
\* which their names were first discovered, managed before workspace, also
\* when a later record replaced the first; the entries and the commands keep
\* that order, so of two commands with one sanitized name the one whose name
\* was discovered first is unsuffixed and the other one gets `_2`.
C24_OverrideKeepsPosition ==
    plLoaded =>
        /\ {plMerged[i].name : i \in 1..Len(plMerged)}
               = {plDiscovered[k] : k \in 1..Len(plDiscovered)}
        /\ \A i, j \in 1..Len(plMerged) :
               i < j => firstSeen(plMerged[i].name) < firstSeen(plMerged[j].name)
        /\ [i \in 1..Len(plEntries) |-> plEntries[i].skill.name] = plNames(plMerged)
        /\ \A i, j \in 1..Len(plCommands) :
               i < j => firstSeen(plCommands[i].skillName) < firstSeen(plCommands[j].skillName)
        /\ \A i \in 1..Len(plCommands) :
               /\ plEarlierSameBase(i) = {}
                      => plCommands[i].name = sanitizeCommandName(plCommands[i].skillName)
               /\ Cardinality(plEarlierSameBase(i)) = 1
                      => plCommands[i].name
                             = sanitizeCommandName(plCommands[i].skillName) \o <<"_","2">>

\* the workspace record of "Deploy Service" replaced the managed one, stands
\* before "deploy_service" and has the unsuffixed command
C24_Witness ==
    /\ plLoaded
    /\ plDiscovered = << DeployServiceName, DeployServiceKey, DeployServiceName >>
    /\ Len(plMerged) = 2
    /\ plMerged[1].source = "workspace" /\ plMerged[1].description = <<"n","e","w">>
    /\ plMerged[2].source = "managed"
    /\ [i \in 1..Len(plCommands) |-> <<plCommands[i].skillName, plCommands[i].name>>]
           = << <<DeployServiceName, <<"d","e","p","l","o","y","_","s","e","r","v","i","c","e">>>>,
                <<DeployServiceKey, <<"d","e","p","l","o","y","_","s","e","r","v","i","c","e","_","2">>>> >>

\* f is a file of the directory root itself
directlyIn(f, root) ==
    f = (IF root = <<"/">> THEN root ELSE root \o <<"/">>) \o lastPart(f)

\* a line of the text starts with `key:`
declaresKey(text, key) ==
    \E i \in 1..Len(text) :
        /\ i = 1 \/ text[i - 1] = "\n"
        /\ i + Len(key) <= Len(text)
        /\ SubSeq(text, i, i + Len(key)) = key \o <<":">>

\* the places, in the skills a scan of root found, of the files of root itself
\* whose text declares no name
nameless(root, skills) ==
    {i \in 1..Len(skills) :
        /\ directlyIn(skills[i].filePath, root)
        /\ ~declaresKey(plDisk.files[skills[i].filePath], <<"n","a","m","e">>)}

\* the name of the directory root, in lower case; empty for the root of the
\* file system
rootName(root) ==
    toLowerCase(lastPart(root))

\* the name of the file f without its extension, in lower case
stemOf(f) ==
    toLowerCase(SubSeq(lastPart(f), 1, Len(lastPart(f)) - 3))

namedAfterRoot(root, skills) ==
    \A i \in nameless(root, skills) :
        skills[i].name = IF rootName(root) # <<>> THEN rootName(root)
                         ELSE stemOf(skills[i].filePath)

\* of the nameless files of a named root, only the one scanned last can be
\* among the merged skills
lastOneSurvives(root, skills) ==
    rootName(root) # <<>> =>
        LET paths     == {skills[i].filePath : i \in nameless(root, skills)}
            survivors == {j \in 1..Len(plMerged) : plMerged[j].filePath \in paths}
        IN  /\ Cardinality(survivors) <= 1
            /\ \A j \in survivors, i \in nameless(root, skills) :
                   plMerged[j].filePath # skills[i].filePath
                       => \E k \in nameless(root, skills) :
                              k > i /\ plMerged[j].filePath = skills[k].filePath

\* C25: a file directly inside a scanned root whose header has no name key
\* gets the lower-cased name of the root directory as its skill name, and its
\* own lower-cased file name without the extension only when the root has an
\* empty base name; of the nameless files of one root at most one, the last
\* scanned, is among the merged skills.
C25_RootFilesShareRootName ==
    /\ plManagedDone => namedAfterRoot(plManagedDir, plManaged)
    /\ plWorkspaceDone => /\ namedAfterRoot(workspaceSkillsDir, plWorkspace)
                          /\ lastOneSurvives(plManagedDir, plManaged)
                          /\ lastOneSurvives(workspaceSkillsDir, plWorkspace)

\* the manager of the root of the file system loaded RootDisk: One.md and
\* two.md are named by their files, a.md and b.md both by "skills", and of
\* these two only b.md is merged
C25_Witness ==
    /\ plLoaded /\ plDisk = RootDisk /\ plManagedDir = <<"/">> /\ plFailing = {}
    /\ plNames(plManaged) = << <<"o","n","e">>, <<"t","w","o">> >>
    /\ plNames(plWorkspace) = << <<"s","k","i","l","l","s">>, <<"s","k","i","l","l","s">>, <<"N","a","m","e","d">> >>
    /\ plNames(plMerged) = << <<"o","n","e">>, <<"t","w","o">>, <<"s","k","i","l","l","s">>, <<"N","a","m","e","d">> >>
    /\ plMerged[3].filePath = <<"/","w","/","s","k","i","l","l","s","/","b",".","m","d">>

====
